---- MODULE Spec2Model ----
(***************************************************************************)
(* Dependency resolution of buildmc (buildmc/api/dependency.py):           *)
(* DependencyIndex (index.json + UUID markers in the managed directories), *)
(* the acquisition strategies Local / URL / Git and the shared unpack and  *)
(* placement routine.                                                      *)
(***************************************************************************)
EXTENDS Integers, Sequences, FiniteSets, TLC

(* ----------------------------- bounds ---------------------------------- *)
MaxDeps == 4           \* most dependencies one configuration declares
MaxEdited == 3         \* most dependencies of a build script edited between two runs
MaxAcquireDeps == 2    \* most leftover dependencies of one acquisition pass
MaxArchiveEntries == 3 \* most members of a ZIP archive drawn as an input
MaxEntries == 3        \* longest persisted index drawn as an input
MaxUuid == 2           \* marker / entry UUID values drawn as inputs: 1..MaxUuid
MaxFormat == 62        \* largest pack format number drawn as an input
MaxRetries == 3        \* most attempts of one download (the default of `retries`)

(* --------------------------- universes --------------------------------- *)
Names == {"a", "b", "c", "d"}
NameOrder == <<"a", "b", "c", "d">>
Nil == "None"          \* Python's None (dict.get of an absent key)
NoUuid == 0            \* no readable marker file / entry without 'uuid'

VARIABLES
    deps,              \* project.__dependencies: configured dependencies, in order
    indexFile,         \* index.json: the persisted entries
    index,             \* DependencyIndex.index: the in-memory entries
    disk,              \* the managed root: name -> managed directory
    failed,            \* not project.__successful
    pc,                \* position of the run
    to_be_resolved,    \* names of configured dependencies still unmatched
    to_be_mapped,      \* positions (in index) of entries still unmatched
    config_to_entry,   \* pairs <<dependency name, entry position>>
    raised,            \* exception that left the pass ("" when none)
    raisedIn,          \* the step the exception left ("" when none)
    index0,            \* index at the start of the pass
    disk0,             \* managed root at the start of the pass
    scanned,           \* managed root after the directory scan of Phase 1
    cleaned,           \* directories deleted by the last loop of Phase 1
    moved,             \* shutil.move calls of the pass: <<source name, target name>>
    removed,           \* directories of leftover entries deleted by the pass
    acquired,          \* names acquire() was invoked on in the pass, in order
    checked,           \* names version_check() was invoked on in the pass, in order
    unpack_writes,     \* files written while unpacking in the last acquire()
    world,             \* what the outside world answered to the last acquire()
    pack_format,       \* project.var_get('project/pack_format')
    next_uuid,         \* the next value uuid4() returns (fresh values, in order)
    run,               \* runs started so far: a first run and the run after it
    prev_run,          \* configuration and outcome of the previous run
    calls,             \* the outside calls the operation under study made, in order
    result             \* what the operation under study returned (FALSE before it did)

vars == <<deps, indexFile, index, disk, failed, pc, to_be_resolved, to_be_mapped,
          config_to_entry, raised, raisedIn, index0, disk0, scanned, cleaned,
          moved, removed, acquired, checked, unpack_writes, world, pack_format,
          next_uuid, run, prev_run, calls, result>>

(* ----------------------------- helpers --------------------------------- *)
\* Python `del s[i]` (i is 1-based here)
RemoveAt(s, i) == [k \in 1..(Len(s) - 1) |-> IF k < i THEN s[k] ELSE s[k + 1]]

Min(a, b) == IF a <= b THEN a ELSE b

\* all orders in which iterdir() may list the members of S
RECURSIVE Orders(_)
Orders(S) ==
    IF S = {} THEN {<<>>}
    ELSE UNION {{<<x>> \o o : o \in Orders(S \ {x})} : x \in S}

(* ------------------------- managed directories ------------------------- *)
NoFiles == [src |-> Nil, tree |-> {}, mcmeta |-> [readable |-> FALSE, json |-> "object",
             has_pack |-> FALSE, pack |-> "object",
             pack_format |-> [t |-> "none", a |-> 0, b |-> 0],
             supported_formats |-> [t |-> "none", a |-> 0, b |-> 0]]]
NoDir == [exists |-> FALSE, uuid |-> NoUuid, files |-> NoFiles, nested |-> {}]
Dir(u, f) == [exists |-> TRUE, uuid |-> u, files |-> f, nested |-> {}]

\* an identity as dict.get() sees it: absent keys read as None
Identity(type, url, root, sha, checkout, pabs, prel, ftype, aroot) ==
    [type |-> type, url |-> url, root |-> root, sha256 |-> sha, checkout |-> checkout,
     path_absolute |-> pabs, path_relative |-> prel, file_type |-> ftype,
     archive_root |-> aroot]

Entry(n, id, u) == [name |-> n, identity |-> id, uuid |-> u]

(* --------------------------- dependencies ------------------------------ *)
\* Dependency.__init__ and the constructors of Local, URL and Git
Local(path, rel, isdir, archive_root, version_check) ==
    [type |-> "local", url |-> Nil, root |-> archive_root, sha256 |-> Nil, checkout |-> Nil,
     path |-> path, rel |-> rel, is_dir |-> isdir, do_version_check |-> version_check]
URL(url, root, sha256_sum, version_check) ==
    [type |-> "url", url |-> url, root |-> root, sha256 |-> sha256_sum, checkout |-> Nil,
     path |-> Nil, rel |-> Nil, is_dir |-> FALSE, do_version_check |-> version_check]
Git(url, root, checkout, version_check) ==
    [type |-> "git", url |-> url, root |-> root, sha256 |-> Nil, checkout |-> checkout,
     path |-> Nil, rel |-> Nil, is_dir |-> FALSE, do_version_check |-> version_check]

\* a configured dependency: a declaration under a name; location starts unset
Dep(n, decl) == [name |-> n, decl |-> decl, location |-> Nil]

\* str(path) of a relative pathlib.Path given by its components
RECURSIVE PathStr(_)
PathStr(path) ==
    IF Len(path) = 0 THEN "."
    ELSE IF Len(path) = 1 THEN path[1]
    ELSE path[1] \o "/" \o PathStr(Tail(path))

\* Local.identity / URL.identity / Git.identity
identity(d) ==
    IF d.type = "local"
    THEN LET ft == IF d.is_dir THEN "directory" ELSE "file" IN
         Identity("local", Nil, Nil, Nil, Nil, d.path, d.rel, ft,
                  IF d.root # Nil /\ ft = "file" THEN PathStr(d.root) ELSE Nil)
    ELSE IF d.type = "url"
    THEN Identity("url", d.url, IF d.root # Nil THEN PathStr(d.root) ELSE Nil, d.sha256,
                  Nil, Nil, Nil, Nil, Nil)
    ELSE Identity("git", d.url, IF d.root # Nil THEN PathStr(d.root) ELSE Nil, Nil,
                  d.checkout, Nil, Nil, Nil, Nil)

\* (variant: a local identity has to agree in both paths)
matches_identity_both_paths(d, id) ==
    LET self == identity(d) IN
    IF d.type = "local"
    THEN /\ id.type = "local"
         /\ id.path_absolute = self.path_absolute
         /\ id.path_relative = self.path_relative
         /\ id.file_type = self.file_type
         /\ id.archive_root = self.archive_root
    ELSE IF d.type = "url"
    THEN /\ id.type = "url"
         /\ id.url = d.url
         /\ self.root = id.root
         /\ self.sha256 = id.sha256
    ELSE /\ id.type = "git"
         /\ self.root = id.root
         /\ self.checkout = id.checkout

\* (variant: a URL identity is not compared in its checksum)
matches_identity_without_sha256(d, id) ==
    LET self == identity(d) IN
    IF d.type = "local"
    THEN /\ id.type = "local"
         /\ (id.path_absolute = self.path_absolute \/ id.path_relative = self.path_relative)
         /\ id.file_type = self.file_type
         /\ id.archive_root = self.archive_root
    ELSE IF d.type = "url"
    THEN /\ id.type = "url"
         /\ id.url = d.url
         /\ self.root = id.root
    ELSE /\ id.type = "git"
         /\ self.root = id.root
         /\ self.checkout = id.checkout

\* Local.matches_identity / URL.matches_identity / Git.matches_identity
matches_identity(d, id) ==
    LET self == identity(d) IN
    IF d.type = "local"
    THEN /\ id.type = "local"
         /\ (id.path_absolute = self.path_absolute \/ id.path_relative = self.path_relative)
         /\ id.file_type = self.file_type
         /\ id.archive_root = self.archive_root
    ELSE IF d.type = "url"
    THEN /\ id.type = "url"
         /\ id.url = d.url
         /\ self.root = id.root
         /\ self.sha256 = id.sha256
    ELSE /\ id.type = "git"
         /\ self.root = id.root
         /\ self.checkout = id.checkout

\* the configured dependency named n (names are the keys of project.__dependencies)
DepNamed(ds, n) == ds[CHOOSE k \in 1..Len(ds) : ds[k].name = n]

(* ---------------------- archives and unpacking ------------------------- *)
\* paths are sequences of components; a leading "/" component makes a ZIP
\* entry name absolute
UnpackDir == <<"buildmc_root", "cache", "unpack">>     \* cache_get(Path('unpack'), True)
Unpack2Dir == <<"buildmc_root", "cache", "unpack2">>   \* cache_get(Path('unpack2'), True)
Manifest == <<"pack.mcmeta">>

\* pathlib: base / name (an absolute right operand replaces the base)
Join(base, name) ==
    IF name # <<>> /\ name[1] = "/" THEN Tail(name) ELSE base \o name

\* pathlib: Path.resolve() (no symbolic links): '..' steps up, never above the root
RECURSIVE ResolveFrom(_, _)
ResolveFrom(done, rest) ==
    IF rest = <<>> THEN done
    ELSE IF Head(rest) = ".."
         THEN ResolveFrom(IF done = <<>> THEN done ELSE SubSeq(done, 1, Len(done) - 1),
                          Tail(rest))
         ELSE IF Head(rest) = "." THEN ResolveFrom(done, Tail(rest))
         ELSE ResolveFrom(Append(done, Head(rest)), Tail(rest))
Resolve(path) == ResolveFrom(<<>>, path)

\* pathlib: a in b.parents
InParents(a, b) == Len(a) < Len(b) /\ SubSeq(b, 1, Len(a)) = a
\* pathlib: b.relative_to(a)
RelativeTo(b, a) == SubSeq(b, Len(a) + 1, Len(b))

\* zipfile.ZipFile.extract: the member name loses '', '.', '..' and a leading '/'
RECURSIVE Sanitize(_)
Sanitize(name) ==
    IF name = <<>> THEN <<>>
    ELSE IF Head(name) \in {"/", "..", ".", ""} THEN Sanitize(Tail(name))
    ELSE <<Head(name)>> \o Sanitize(Tail(name))

\* (variant: members below the root keep their path, line 316 left out)
FileDestinationUnstripped(name, archive_root) ==
    LET Rerooted(file_destination, archive_root_path) ==
            IF ~InParents(archive_root_path, file_destination)
            THEN [skip |-> TRUE, path |-> file_destination]
            ELSE [skip |-> FALSE, path |-> file_destination]
    IN IF archive_root = Nil
       THEN [skip |-> FALSE, path |-> Resolve(Join(UnpackDir, name))]
       ELSE Rerooted(Resolve(Join(UnpackDir, name)), Resolve(Join(UnpackDir, archive_root)))

\* lines 310-317: where one archive member is to be placed
\* (archive_root = Nil: no in-archive root)
FileDestination(name, archive_root) ==
    LET Rerooted(file_destination, archive_root_path) ==
            IF ~InParents(archive_root_path, file_destination)
            THEN [skip |-> TRUE, path |-> file_destination]
            ELSE [skip |-> FALSE,
                  path |-> UnpackDir \o RelativeTo(file_destination, archive_root_path)]
    IN IF archive_root = Nil
       THEN [skip |-> FALSE, path |-> Resolve(Join(UnpackDir, name))]
       ELSE Rerooted(Resolve(Join(UnpackDir, name)), Resolve(Join(UnpackDir, archive_root)))

\* (variant: the containment test never skips)
OutsideUnpackDirNever(dest) == FALSE

\* line 319: the containment test on the destination
OutsideUnpackDir(dest) == ~InParents(UnpackDir, dest)

\* lines 309-330: the files one archive member makes the routine write
ExtractMember(name, archive_root) ==
    LET Extract(fd) ==
            IF fd.skip \/ OutsideUnpackDir(fd.path) THEN {}
            ELSE IF archive_root # Nil
                 THEN {Unpack2Dir \o Sanitize(name), fd.path}
                 ELSE {fd.path \o Sanitize(name)}
    IN Extract(FileDestination(name, archive_root))

\* lines 299-332: None (project.fail) when the manifest name is not a member,
\* else all files written
unpack(archive, archive_root) ==
    LET wanted == IF archive_root = Nil THEN Manifest ELSE archive_root \o Manifest IN
    IF wanted \notin archive
    THEN [failed |-> TRUE, writes |-> {}]
    ELSE [failed |-> FALSE,
          writes |-> UNION {ExtractMember(name, archive_root) : name \in archive}]

\* the file tree below the unpack working directory, as relative paths
TreeOf(writes) == {RelativeTo(f, UnpackDir) : f \in {x \in writes : InParents(UnpackDir, x)}}

(* ------------------- version compatibility check ----------------------- *)
\* Python values as far as pack_format_compatible tells them apart
PyNone == [t |-> "none", a |-> 0, b |-> 0]
PyInt(n) == [t |-> "int", a |-> n, b |-> 0]
PyVersion(n) == [t |-> "Version", a |-> n, b |-> 0]     \* util.Version(..., format_number = n)
PyPair(x, y) == [t |-> "list2", a |-> x, b |-> y]        \* [x, y]
PyMinMax(x, y) == [t |-> "dict2", a |-> x, b |-> y]      \* {min_inclusive: x, max_inclusive: y}
PyOther == [t |-> "other", a |-> 0, b |-> 0]
\* JSON true / false: bool is a subclass of int, True == 1 and False == 0
PyBool(v) == [t |-> "bool", a |-> IF v THEN 1 ELSE 0, b |-> 0]
\* isinstance(value, int)
IsInstanceInt(value) == value.t \in {"int", "bool"}

\* a pack.mcmeta as get_json and pack_format_compatible see it:
\*   readable: get_json returns a value other than None
\*   json: the type of the top-level value ("not_text": bytes that do not decode)
\*   has_pack: 'pack' in pack_mcmeta_json
\*   pack: the type of pack_mcmeta_json['pack']
\*   pack_format: property_pack['pack_format'], PyNone when the key is not in it
Mcmeta(pf, sf) == [readable |-> TRUE, json |-> "object", has_pack |-> TRUE, pack |-> "object",
                   pack_format |-> pf, supported_formats |-> sf]
NoMcmeta == [readable |-> FALSE, json |-> "object", has_pack |-> FALSE, pack |-> "object",
             pack_format |-> PyNone, supported_formats |-> PyNone]

\* (variant: the project's pack format is read as the format number of the
\* Version object)
pack_format_compatible_fails_by_number(project_pack_format, mcmeta) ==
    IF project_pack_format.t \notin {"int", "Version"} THEN TRUE
    ELSE IF ~mcmeta.readable THEN TRUE
    ELSE IF ~mcmeta.has_pack THEN TRUE
    ELSE IF ~IsInstanceInt(mcmeta.pack_format) THEN TRUE
    ELSE LET sf == mcmeta.supported_formats
             pf == mcmeta.pack_format.a
             p == project_pack_format.a
         IN IF sf.t = "none" THEN p # pf
            ELSE IF ~IsInstanceInt(sf) /\ sf.t \notin {"list2", "dict2"} THEN TRUE
            ELSE LET lo == sf.a
                     hi == IF IsInstanceInt(sf) THEN sf.a ELSE sf.b
                 IN IF ~(lo <= pf /\ pf <= hi) THEN TRUE
                    ELSE ~(lo <= p /\ p <= hi)

\* _pack_format_check.pack_format_compatible: TRUE when it calls project.fail()
\* (for the calls that return)
pack_format_compatible_fails(project_pack_format, mcmeta) ==
    IF ~IsInstanceInt(project_pack_format) THEN TRUE
    ELSE IF ~mcmeta.readable THEN TRUE
    ELSE IF ~mcmeta.has_pack THEN TRUE
    ELSE IF ~IsInstanceInt(mcmeta.pack_format) THEN TRUE
    ELSE LET sf == mcmeta.supported_formats
             pf == mcmeta.pack_format.a
             p == project_pack_format.a
         IN IF sf.t = "none" THEN p # pf
            ELSE IF ~IsInstanceInt(sf) /\ sf.t \notin {"list2", "dict2"} THEN TRUE
            ELSE LET lo == sf.a
                     hi == IF IsInstanceInt(sf) THEN sf.a ELSE sf.b
                 IN IF ~(lo <= pf /\ pf <= hi) THEN TRUE
                    ELSE ~(lo <= p /\ p <= hi)

\* the exception pack_format_compatible ends with, "" when it returns:
\* json.load on bytes that are not text (get_json catches JSONDecodeError
\* only), `in` on a number, a str subscript on a list or a str
pack_format_compatible_raises(project_pack_format, mcmeta) ==
    IF ~IsInstanceInt(project_pack_format) THEN ""
    ELSE IF mcmeta.json = "not_text" THEN "UnicodeDecodeError"
    ELSE IF ~mcmeta.readable THEN ""
    ELSE IF mcmeta.json = "number" THEN "TypeError"
    ELSE IF ~mcmeta.has_pack THEN ""
    ELSE IF mcmeta.json # "object" THEN "TypeError"
    ELSE IF mcmeta.pack = "number" THEN "TypeError"
    ELSE IF mcmeta.pack_format.t = "none" THEN ""
    ELSE IF mcmeta.pack # "object" THEN "TypeError"
    ELSE ""

(* ----------------------------- acquisition ----------------------------- *)
\* what a managed directory holds: the files of a source
Files(src, tree, mcmeta) == [src |-> src, tree |-> tree, mcmeta |-> mcmeta]

\* (variant: the validation of lines 335-338 is left out)
handle_acquired_files_unvalidated(name, dsk, source, archive_root, w) ==
    LET Place(up, tree) ==
            IF up.failed
            THEN [location |-> Nil, failed |-> TRUE, disk |-> dsk, writes |-> up.writes,
                  raised |-> ""]
            ELSE IF dsk[name].exists
            THEN [location |-> name, failed |-> FALSE, disk |-> dsk, writes |-> up.writes,
                  raised |-> ""]
            ELSE IF w.place = "ok"
            THEN [location |-> name, failed |-> FALSE, writes |-> up.writes, raised |-> "",
                  disk |-> [dsk EXCEPT ![name] =
                               [exists |-> TRUE, uuid |-> NoUuid,
                                files |-> Files(source.id, tree, source.mcmeta),
                                nested |-> {}]]]
            ELSE IF w.place = "oserror"
            THEN [location |-> Nil, failed |-> FALSE, disk |-> dsk, writes |-> up.writes,
                  raised |-> "OSError"]
            ELSE [location |-> Nil, failed |-> TRUE, writes |-> up.writes, raised |-> "",
                  disk |-> IF w.place = "partial"
                           THEN [dsk EXCEPT ![name] =
                                    [exists |-> TRUE, uuid |-> NoUuid,
                                     files |-> Files(source.id, {}, NoMcmeta),
                                     nested |-> {}]]
                           ELSE dsk]
        Unpacked(up) ==
            Place(up, IF source.kind = "file" THEN TreeOf(up.writes)
                      ELSE IF source.kind = "dir" THEN source.tree ELSE {})
    IN Unpacked(IF source.kind = "file" THEN unpack(source.archive, archive_root)
                ELSE [failed |-> FALSE, writes |-> {}])

\* Dependency._handle_acquired_files. source: [kind: "file" | "dir" | "missing",
\* archive, tree, mcmeta, id]; w.place: what shutil.move / shutil.copytree do:
\* "ok"; "error" and "partial" raise shutil.Error (caught at line 352), the
\* latter after the destination was created; "oserror" raises another OSError
\* (a PermissionError, say), which line 352 does not catch
handle_acquired_files(name, dsk, source, archive_root, w) ==
    LET Place(up, tree) ==
            IF up.failed
            THEN [location |-> Nil, failed |-> TRUE, disk |-> dsk, writes |-> up.writes,
                  raised |-> ""]
            ELSE IF Manifest \notin tree
            THEN [location |-> Nil, failed |-> TRUE, disk |-> dsk, writes |-> up.writes,
                  raised |-> ""]
            ELSE IF dsk[name].exists
            THEN [location |-> name, failed |-> FALSE, disk |-> dsk, writes |-> up.writes,
                  raised |-> ""]
            ELSE IF w.place = "ok"
            THEN [location |-> name, failed |-> FALSE, writes |-> up.writes, raised |-> "",
                  disk |-> [dsk EXCEPT ![name] =
                               [exists |-> TRUE, uuid |-> NoUuid,
                                files |-> Files(source.id, tree, source.mcmeta),
                                nested |-> {}]]]
            ELSE IF w.place = "oserror"
            THEN [location |-> Nil, failed |-> FALSE, disk |-> dsk, writes |-> up.writes,
                  raised |-> "OSError"]
            ELSE [location |-> Nil, failed |-> TRUE, writes |-> up.writes, raised |-> "",
                  disk |-> IF w.place = "partial"
                           THEN [dsk EXCEPT ![name] =
                                    [exists |-> TRUE, uuid |-> NoUuid,
                                     files |-> Files(source.id, {}, NoMcmeta),
                                     nested |-> {}]]
                           ELSE dsk]
        Unpacked(up) ==
            Place(up, IF source.kind = "file" THEN TreeOf(up.writes)
                      ELSE IF source.kind = "dir" THEN source.tree ELSE {})
    IN Unpacked(IF source.kind = "file" THEN unpack(source.archive, archive_root)
                ELSE [failed |-> FALSE, writes |-> {}])

NoSource == [kind |-> "missing", archive |-> {}, tree |-> {}, mcmeta |-> NoMcmeta, id |-> Nil]
NotPlaced(loc, dsk) ==
    [location |-> loc, failed |-> TRUE, disk |-> dsk, writes |-> {}, raised |-> ""]

\* util.download, as URL.acquire sees it: True; False after the retries ended
\* in requests.HTTPError or ChecksumMismatchError (lines 67-70); any other
\* exception of requests.get (requests.ConnectionError) is not caught
download(w) ==
    IF w.download = "ok" THEN [ok |-> TRUE, raised |-> ""]
    ELSE IF w.download \in {"http_error", "checksum_mismatch"} THEN [ok |-> FALSE, raised |-> ""]
    ELSE [ok |-> FALSE, raised |-> "ConnectionError"]

\* subprocess.run(...) != 0 compares a CompletedProcess with an int (line 575)
CompletedProcessIsNot0 == TRUE

\* the test the code applies to one git command: `.returncode != 0`, but for the
\* fetch `run(...) != 0`
StepFailed(step, w) == IF step = "fetch" THEN CompletedProcessIsNot0 ELSE w[step] # 0

\* a chain `run(a)... != 0 or run(b)... != 0 or ...`: the commands run one after
\* the other until the first test that is true
RECURSIVE RunSteps(_, _, _)
RunSteps(steps, w, done) ==
    IF steps = <<>> THEN [calls |-> done, failed |-> FALSE]
    ELSE IF StepFailed(Head(steps), w) THEN [calls |-> Append(done, Head(steps)), failed |-> TRUE]
    ELSE RunSteps(Tail(steps), w, Append(done, Head(steps)))

\* Git.acquire, lines 543-594: the commands it runs and whether it gave up
git_clone(d, w) ==
    IF ~w.git_installed THEN [calls |-> <<"git">>, failed |-> TRUE]
    ELSE IF d.checkout = Nil THEN RunSteps(<<"clone">>, w, <<"git">>)
    ELSE LET Fallback(m) ==
                 IF ~m.failed THEN m
                 ELSE RunSteps(<<"clone", "checkout_ref">>, w, Append(m.calls, "cache_clean"))
         IN Fallback(RunSteps(<<"init", "remote_add", "fetch", "checkout_fetch_head",
                                "submodule_update">>, w, <<"git", "cache_clean">>))

\* Local.acquire / URL.acquire / Git.acquire. w: what the outside world answers
acquire(dep, dsk, w) ==
    LET d == dep.decl IN
    IF d.type = "local"
    THEN handle_acquired_files(dep.name, dsk, [w.source EXCEPT !.id = d.path], d.root, w)
    ELSE IF d.type = "url"
    THEN LET Downloaded(r) ==
                 IF r.raised # ""
                 THEN [NotPlaced(dep.location, dsk) EXCEPT !.failed = FALSE,
                                                           !.raised = r.raised]
                 ELSE IF ~r.ok THEN NotPlaced(dep.location, dsk)
                 ELSE handle_acquired_files(dep.name, dsk, [w.source EXCEPT !.id = d.url],
                                            d.root, w)
         IN Downloaded(download(w))
    ELSE IF git_clone(d, w).failed THEN NotPlaced(dep.location, dsk)
    ELSE IF ~w.root_is_dir THEN NotPlaced(dep.location, dsk)
    ELSE handle_acquired_files(dep.name, dsk, [w.source EXCEPT !.id = d.url], Nil, w)

\* Dependency.version_check: TRUE when project.fail() is called
version_check_fails(location, dsk, project_pack_format) ==
    /\ location # Nil
    /\ pack_format_compatible_fails(project_pack_format,
           IF dsk[location].exists /\ Manifest \in dsk[location].files.tree
           THEN dsk[location].files.mcmeta ELSE NoMcmeta)

\* Dependency.version_check: the exception it ends with, "" when it returns
version_check_raises(location, dsk, project_pack_format) ==
    IF location = Nil THEN ""
    ELSE pack_format_compatible_raises(project_pack_format,
             IF dsk[location].exists /\ Manifest \in dsk[location].files.tree
             THEN dsk[location].files.mcmeta ELSE NoMcmeta)

(* ------------------- Phase 1: __resolve_index -------------------------- *)
U2DHas(u2d, u) == \E k \in 1..Len(u2d) : u2d[k].uuid = u
U2DGet(u2d, u) == u2d[CHOOSE k \in 1..Len(u2d) : u2d[k].uuid = u].dir
U2DDel(u2d, u) == RemoveAt(u2d, CHOOSE k \in 1..Len(u2d) : u2d[k].uuid = u)

\* one iteration of the loop over managed_path.iterdir()
ScanDir(st, d) ==
    IF ~st.disk[d].exists THEN st
    ELSE IF st.disk[d].uuid = NoUuid
         THEN [st EXCEPT !.disk[d] = NoDir]
    ELSE IF U2DHas(st.u2d, st.disk[d].uuid)
         THEN LET other == U2DGet(st.u2d, st.disk[d].uuid) IN
              IF st.disk[other].exists
              THEN [st EXCEPT !.disk = [@ EXCEPT ![d] = NoDir, ![other] = NoDir]]
              ELSE [st EXCEPT !.disk[d] = NoDir, !.raised = "FileNotFoundError"]
    ELSE [st EXCEPT !.u2d = Append(@, [uuid |-> st.disk[d].uuid, dir |-> d])]

RECURSIVE ScanDirs(_, _)
ScanDirs(order, st) ==
    IF order = <<>> \/ st.raised # "" THEN st
    ELSE ScanDirs(Tail(order), ScanDir(st, Head(order)))

\* the loop `for i in range(len(self.index))`; i is the 0-based loop variable
RECURSIVE ResolveEntries(_, _, _, _)
ResolveEntries(i, n, idx, u2d) ==
    IF i >= n THEN [index |-> idx, u2d |-> u2d, raised |-> ""]
    ELSE IF i >= Len(idx) THEN [index |-> idx, u2d |-> u2d, raised |-> "IndexError"]
    ELSE IF U2DHas(u2d, idx[i + 1].uuid)
         THEN ResolveEntries(i + 1, n, idx, U2DDel(u2d, idx[i + 1].uuid))
         ELSE ResolveEntries(i + 1, n, RemoveAt(idx, i + 1), u2d)

\* the loop over uuid_to_dir.values()
RECURSIVE DeleteUnclaimed(_, _, _)
DeleteUnclaimed(u2d, dsk, done) ==
    IF u2d = <<>> THEN [disk |-> dsk, cleaned |-> done, raised |-> ""]
    ELSE IF ~dsk[Head(u2d).dir].exists
         THEN [disk |-> dsk, cleaned |-> done, raised |-> "FileNotFoundError"]
         ELSE DeleteUnclaimed(Tail(u2d), [dsk EXCEPT ![Head(u2d).dir] = NoDir],
                              done \cup {Head(u2d).dir})

resolve_index(idx, dsk, order) ==
    LET Cleaned(scan, res, del) ==
            [index |-> res.index, disk |-> del.disk, scanned |-> scan.disk,
             cleaned |-> del.cleaned, raised |-> del.raised]
        Resolved(scan, res) ==
            IF res.raised # ""
            THEN [index |-> res.index, disk |-> scan.disk, scanned |-> scan.disk,
                  cleaned |-> {}, raised |-> res.raised]
            ELSE Cleaned(scan, res, DeleteUnclaimed(res.u2d, scan.disk, {}))
        Scanned(scan) ==
            IF scan.raised # ""
            THEN [index |-> idx, disk |-> scan.disk, scanned |-> scan.disk, cleaned |-> {},
                  raised |-> scan.raised]
            ELSE Resolved(scan, ResolveEntries(0, Len(idx), idx, scan.u2d))
    IN Scanned(ScanDirs(order, [disk |-> dsk, u2d |-> <<>>, raised |-> ""]))

(* ------------- Phase 2: resolve_dependencies, matching ----------------- *)
\* the inner loops break at the first position (1-based) of to_be_mapped that
\* hits; 0 when no position hits
FirstPos(hits) ==
    IF hits = {} THEN 0 ELSE CHOOSE j \in hits : \A k \in hits : j <= k

\* the loop of lines 116-131; i is the 0-based loop variable, n = len(to_be_resolved)
\* when the loop started
RECURSIVE MatchByNameLoop(_, _, _, _)
MatchByNameLoop(i, n, ds, st) ==
    IF i >= n \/ i >= Len(st.tbr) THEN st
    ELSE LET Hit(dep, pos) == /\ st.index[pos].name = dep.name
                              /\ matches_identity(dep.decl, st.index[pos].identity)
             Found(dep, j) ==
                 IF j = 0 THEN MatchByNameLoop(i + 1, n, ds, st)
                 ELSE MatchByNameLoop(i + 1, n, ds,
                          [st EXCEPT !.c2e = @ \cup {<<dep.name, st.tbm[j]>>},
                                     !.tbm = RemoveAt(@, j),
                                     !.tbr = RemoveAt(@, i + 1)])
             Search(dep) ==
                 Found(dep, FirstPos({q \in 1..Len(st.tbm) : Hit(dep, st.tbm[q])}))
         IN Search(DepNamed(ds, st.tbr[i + 1]))

\* shutil.move(managed_path / src, managed_path / dst)
move(dsk, src, dst) ==
    IF src = dst
    THEN [disk |-> dsk, raised |-> IF dsk[src].exists THEN "" ELSE "FileNotFoundError"]
    ELSE IF dsk[dst].exists
    THEN IF src \in dsk[dst].nested THEN [disk |-> dsk, raised |-> "shutil.Error"]
         ELSE IF ~dsk[src].exists THEN [disk |-> dsk, raised |-> "FileNotFoundError"]
         ELSE [disk |-> [dsk EXCEPT ![dst].nested = @ \cup {src}, ![src] = NoDir],
               raised |-> ""]
    ELSE IF ~dsk[src].exists THEN [disk |-> dsk, raised |-> "FileNotFoundError"]
    ELSE [disk |-> [dsk EXCEPT ![dst] = dsk[src], ![src] = NoDir], raised |-> ""]

\* the loop of lines 136-154; the inner loop runs j over range(len(to_be_resolved))
RECURSIVE MatchByIdentityLoop(_, _, _, _)
MatchByIdentityLoop(i, n, ds, st) ==
    IF i >= n \/ i >= Len(st.tbr) \/ st.raised # "" THEN st
    ELSE LET Hit(dep, pos) == matches_identity(dep.decl, st.index[pos].identity)
             Moved(dep, j, pos, mv) ==
                 IF mv.raised # ""
                 THEN [st EXCEPT !.raised = mv.raised,
                                 !.moved = @ \cup {<<st.index[pos].name, dep.name>>}]
                 ELSE MatchByIdentityLoop(i + 1, n, ds,
                          [st EXCEPT !.disk = mv.disk,
                                     !.moved = @ \cup {<<st.index[pos].name, dep.name>>},
                                     !.index[pos].name = dep.name,
                                     !.tbr = RemoveAt(@, i + 1),
                                     !.tbm = RemoveAt(@, j),
                                     !.c2e = @ \cup {<<dep.name, pos>>}])
             Found(dep, j) ==
                 IF j = 0
                 THEN IF Len(st.tbr) > Len(st.tbm)
                      THEN [st EXCEPT !.raised = "IndexError"]
                      ELSE MatchByIdentityLoop(i + 1, n, ds, st)
                 ELSE Moved(dep, j, st.tbm[j],
                            move(st.disk, st.index[st.tbm[j]].name, dep.name))
             Search(dep) ==
                 Found(dep, FirstPos({q \in 1..Min(Len(st.tbr), Len(st.tbm)) :
                                        Hit(dep, st.tbm[q])}))
         IN Search(DepNamed(ds, st.tbr[i + 1]))

\* the loop of lines 159-161: shutil.rmtree of every leftover entry's directory
RECURSIVE RemoveLeftoverLoop(_, _)
RemoveLeftoverLoop(rest, st) ==
    IF rest = <<>> \/ st.raised # "" THEN st
    ELSE LET n == st.index[Head(rest)].name IN
         IF ~st.disk[n].exists THEN [st EXCEPT !.raised = "FileNotFoundError"]
         ELSE RemoveLeftoverLoop(Tail(rest),
                  [st EXCEPT !.disk[n] = NoDir, !.removed = @ \cup {n}])

\* lines 112-161 of resolve_dependencies
match_dependencies(ds, idx, dsk) ==
    LET Leftover(st2) ==
            IF st2.raised # "" THEN st2
            ELSE IF Len(st2.tbr) = 0 /\ Len(st2.tbm) > 0
            THEN RemoveLeftoverLoop(st2.tbm, st2)
            ELSE st2
        ByIdentity(st1) ==
            Leftover(IF Len(st1.tbr) > 0 /\ Len(st1.tbm) > 0
                     THEN MatchByIdentityLoop(0, Len(st1.tbr), ds, st1)
                     ELSE st1)
    IN ByIdentity(MatchByNameLoop(0, Len(ds), ds,
           [tbr |-> [k \in 1..Len(ds) |-> ds[k].name], tbm |-> [k \in 1..Len(idx) |-> k],
            c2e |-> {}, index |-> idx, disk |-> dsk, raised |-> "", moved |-> {},
            removed |-> {}]))

(* ------------------------------ actions -------------------------------- *)
\* resolve_dependencies, line 110: self.__resolve_index()
ResolveIndex ==
    /\ pc = "resolve"
    /\ \E order \in Orders({d \in Names : disk[d].exists}) :
          \E r \in {resolve_index(index, disk, order)} :
          /\ index' = r.index
          /\ disk' = r.disk
          /\ scanned' = r.scanned
          /\ cleaned' = r.cleaned
          /\ raised' = r.raised
          /\ raisedIn' = IF r.raised # "" THEN "resolve_index" ELSE ""
          /\ pc' = IF r.raised # "" THEN "crashed" ELSE "match_name"
    /\ index0' = index
    /\ disk0' = disk
    /\ UNCHANGED <<deps, indexFile, failed, to_be_resolved, to_be_mapped, config_to_entry,
                   moved, removed, acquired, checked, unpack_writes, world, pack_format,
                   next_uuid, run, prev_run, calls,
                   result>>


\* resolve_dependencies, lines 112-161
MatchDependencies ==
    /\ pc = "match_name"
    /\ \E m \in {match_dependencies(deps, index, disk)} :
       /\ to_be_resolved' = m.tbr
       /\ to_be_mapped' = m.tbm
       /\ config_to_entry' = m.c2e
       /\ index' = m.index
       /\ disk' = m.disk
       /\ moved' = m.moved
       /\ removed' = m.removed
       /\ raised' = m.raised
       /\ raisedIn' = IF m.raised # "" THEN "match" ELSE ""
       /\ pc' = IF m.raised # "" THEN "crashed"
                ELSE IF Len(m.tbr) > 0 THEN "acquire" ELSE "returned"
    /\ UNCHANGED <<deps, indexFile, failed, index0, disk0, scanned, cleaned, acquired,
                   checked, unpack_writes, world, pack_format, next_uuid, run, prev_run, calls,
                   result>>

\* (variant: the loop goes on after a failed acquire, line 173 left out)
AcquireWithoutReturn(w) ==
    /\ pc = "acquire"
    /\ Len(acquired) < Len(to_be_resolved)
    /\ \E k \in {k \in 1..Len(deps) : deps[k].name = to_be_resolved[Len(acquired) + 1]} :
       \E a \in {acquire(deps[k], disk, w)} :
       \E failed1 \in {failed \/ a.failed} :
       \E vc \in {a.raised = "" /\ ~failed1 /\ deps[k].decl.do_version_check} :
       \E failed2 \in {failed1
                         \/ (vc /\ version_check_fails(a.location, a.disk, pack_format))} :
          /\ acquired' = Append(acquired, deps[k].name)
          /\ unpack_writes' = a.writes
          /\ world' = w
          /\ raised' = a.raised
          /\ raisedIn' = IF a.raised # "" THEN "acquire" ELSE raisedIn
          /\ deps' = IF a.raised # "" THEN deps ELSE [deps EXCEPT ![k].location = a.location]
          /\ disk' = IF failed1 /\ a.raised = ""
                     THEN [a.disk EXCEPT ![deps[k].name] = NoDir] ELSE a.disk
          /\ checked' = IF vc THEN Append(checked, deps[k].name) ELSE checked
          /\ calls' = IF deps[k].decl.type = "git" THEN git_clone(deps[k].decl, w).calls ELSE <<>>
          /\ failed' = failed2
          /\ pc' = IF a.raised # "" THEN "crashed"
                   ELSE IF (failed2 /\ ~failed1) \/ Len(acquired) + 1 = Len(to_be_resolved)
                   THEN "returned" ELSE "acquire"
    /\ UNCHANGED <<indexFile, index, to_be_resolved, to_be_mapped, config_to_entry, index0,
                   disk0, scanned, cleaned, moved, removed, pack_format, next_uuid, run,
                   prev_run, result>>

\* (variant: the loop goes on after a failed version check, lines 178-179 left out)
AcquireWithoutCheckReturn(w) ==
    /\ pc = "acquire"
    /\ Len(acquired) < Len(to_be_resolved)
    /\ \E k \in {k \in 1..Len(deps) : deps[k].name = to_be_resolved[Len(acquired) + 1]} :
       \E a \in {acquire(deps[k], disk, w)} :
       \E failed1 \in {failed \/ a.failed} :
       \E vc \in {a.raised = "" /\ ~failed1 /\ deps[k].decl.do_version_check} :
       \E failed2 \in {failed1
                         \/ (vc /\ version_check_fails(a.location, a.disk, pack_format))} :
          /\ acquired' = Append(acquired, deps[k].name)
          /\ unpack_writes' = a.writes
          /\ world' = w
          /\ raised' = a.raised
          /\ raisedIn' = IF a.raised # "" THEN "acquire" ELSE raisedIn
          /\ deps' = IF a.raised # "" THEN deps ELSE [deps EXCEPT ![k].location = a.location]
          /\ disk' = IF failed1 /\ a.raised = ""
                     THEN [a.disk EXCEPT ![deps[k].name] = NoDir] ELSE a.disk
          /\ checked' = IF vc THEN Append(checked, deps[k].name) ELSE checked
          /\ calls' = IF deps[k].decl.type = "git" THEN git_clone(deps[k].decl, w).calls ELSE <<>>
          /\ failed' = failed2
          /\ pc' = IF a.raised # "" THEN "crashed"
                   ELSE IF failed1 \/ Len(acquired) + 1 = Len(to_be_resolved)
                   THEN "returned" ELSE "acquire"
    /\ UNCHANGED <<indexFile, index, to_be_resolved, to_be_mapped, config_to_entry, index0,
                   disk0, scanned, cleaned, moved, removed, pack_format, next_uuid, run,
                   prev_run, result>>

\* one iteration of the loop of lines 166-179 on the next leftover dependency
AcquireWith(w) ==
    /\ pc = "acquire"
    /\ Len(acquired) < Len(to_be_resolved)
    /\ \E k \in {k \in 1..Len(deps) : deps[k].name = to_be_resolved[Len(acquired) + 1]} :
       \E a \in {acquire(deps[k], disk, w)} :
       \E failed1 \in {failed \/ a.failed} :
       \E vc \in {a.raised = "" /\ ~failed1 /\ deps[k].decl.do_version_check} :
       \E failed2 \in {failed1
                         \/ (vc /\ version_check_fails(a.location, a.disk, pack_format))} :
          /\ acquired' = Append(acquired, deps[k].name)
          /\ unpack_writes' = a.writes
          /\ world' = w
          /\ raised' = a.raised
          /\ raisedIn' = IF a.raised # "" THEN "acquire" ELSE raisedIn
          /\ deps' = IF a.raised # "" THEN deps ELSE [deps EXCEPT ![k].location = a.location]
          /\ disk' = IF failed1 /\ a.raised = ""
                     THEN [a.disk EXCEPT ![deps[k].name] = NoDir] ELSE a.disk
          /\ checked' = IF vc THEN Append(checked, deps[k].name) ELSE checked
          /\ calls' = IF deps[k].decl.type = "git" THEN git_clone(deps[k].decl, w).calls ELSE <<>>
          /\ failed' = failed2
          /\ pc' = IF a.raised # "" THEN "crashed"
                   ELSE IF failed2 \/ Len(acquired) + 1 = Len(to_be_resolved)
                   THEN "returned" ELSE "acquire"
    /\ UNCHANGED <<indexFile, index, to_be_resolved, to_be_mapped, config_to_entry, index0,
                   disk0, scanned, cleaned, moved, removed, pack_format, next_uuid, run,
                   prev_run, result>>

\* DependencyIndex.save_index: the loop of lines 187-200
RECURSIVE SaveMarkers(_, _, _)
SaveMarkers(k, ds, st) ==
    IF k > Len(ds) \/ st.raised # "" THEN st
    ELSE IF ~st.disk[ds[k].name].exists
         THEN [st EXCEPT !.raised = "FileNotFoundError"]
         ELSE SaveMarkers(k + 1, ds,
                  [st EXCEPT !.disk[ds[k].name].uuid = st.uuid,
                             !.list = Append(@, Entry(ds[k].name, identity(ds[k].decl), st.uuid)),
                             !.uuid = @ + 1])

\* lines 182-208: markers and index.json
save_index(ds, dsk, file, uuid) ==
    LET Saved(st) == [disk |-> st.disk, uuid |-> st.uuid, raised |-> st.raised,
                      indexFile |-> IF st.raised = "" THEN st.list ELSE file]
    IN Saved(SaveMarkers(1, ds, [disk |-> dsk, list |-> <<>>, uuid |-> uuid, raised |-> ""]))

\* tasks.post, line 100: project.dependency_index.save_index()
SaveIndex ==
    /\ pc = "returned"
    /\ \E r \in {save_index(deps, disk, indexFile, next_uuid)} :
       /\ disk' = r.disk
       /\ indexFile' = r.indexFile
       /\ next_uuid' = r.uuid
       /\ raised' = r.raised
       /\ raisedIn' = IF r.raised # "" THEN "save_index" ELSE ""
       /\ pc' = IF r.raised # "" THEN "crashed" ELSE "saved"
    /\ UNCHANGED <<deps, index, failed, to_be_resolved, to_be_mapped, config_to_entry, index0,
                   disk0, scanned, cleaned, moved, removed, acquired, checked, unpack_writes,
                   world, pack_format, run, prev_run, calls,
                   result>>

(* ------------------------- inputs of the runs -------------------------- *)
GoodMcmeta == Mcmeta(PyInt(61), PyNone)
GoodTree == {Manifest, <<"data", "x">>}
BadTree == {<<"data", "x">>}
DirSource(tree) == [kind |-> "dir", archive |-> {}, tree |-> tree,
                    mcmeta |-> IF Manifest \in tree THEN GoodMcmeta ELSE NoMcmeta, id |-> Nil]
ZipSource(archive) == [kind |-> "file", archive |-> archive, tree |-> {},
                       mcmeta |-> GoodMcmeta, id |-> Nil]
RootedArchive == {<<"r", "pack.mcmeta">>, <<"r", "data", "x">>, <<"other">>}
NoManifestArchive == {<<"r", "data", "x">>}

\* everything goes well
GoodWorld == [source |-> DirSource(GoodTree), download |-> "ok", git_installed |-> TRUE,
              init |-> 0, remote_add |-> 0, fetch |-> 0, checkout_fetch_head |-> 0, submodule_update |-> 0,
              clone |-> 0, checkout_ref |-> 0, root_is_dir |-> TRUE, place |-> "ok"]

\* the declarations the configurations of the runs are drawn from
L1 == Local("/p1", "p1", TRUE, Nil, FALSE)
U1 == URL("http://u1", <<"r">>, Nil, FALSE)
G1 == Git("git://g1", Nil, Nil, TRUE)
Catalog == {L1, U1}

TopLevelArchive == {<<"pack.mcmeta">>, <<"data", "x">>}
SomeArchives == {RootedArchive, NoManifestArchive, TopLevelArchive}

\* return codes of the git commands of Git.acquire: all good, or one command fails
GitAnswers ==
    {GoodWorld} \cup {[GoodWorld EXCEPT ![f] = 1] :
        f \in {"init", "remote_add", "fetch", "checkout_fetch_head", "submodule_update",
               "clone", "checkout_ref"}}

\* the answers of the outside world to the acquisition of a declaration
Worlds(d) ==
    IF d.type = "local" /\ d.is_dir
    THEN {[GoodWorld EXCEPT !.source = DirSource(t), !.place = p] :
             t \in {GoodTree, BadTree}, p \in {"ok", "error", "partial", "oserror"}}
    ELSE IF d.type = "local"
    THEN {[GoodWorld EXCEPT !.source = src, !.place = p] :
             src \in {ZipSource(a) : a \in SomeArchives} \cup {NoSource},
             p \in {"ok", "error"}}
    ELSE IF d.type = "url"
    THEN {[GoodWorld EXCEPT !.download = o] :
             o \in {"http_error", "checksum_mismatch", "connection_error"}}
         \cup {[GoodWorld EXCEPT !.source = ZipSource(a), !.place = p] :
                  a \in SomeArchives, p \in {"ok", "error"}}
    ELSE {[GoodWorld EXCEPT !.git_installed = FALSE],
          [GoodWorld EXCEPT !.place = "error"], [GoodWorld EXCEPT !.place = "partial"]}
         \cup GitAnswers
         \cup {[GoodWorld EXCEPT !.source = DirSource(BadTree)]}
         \cup (IF d.root = Nil THEN {} ELSE {[GoodWorld EXCEPT !.root_is_dir = FALSE]})

\* the answers the runs of Spec meet: all is well, or the source lacks its manifest
MainWorlds(d) ==
    IF d.type = "local"
    THEN {[GoodWorld EXCEPT !.source = DirSource(t)] : t \in {GoodTree, BadTree}}
    ELSE {[GoodWorld EXCEPT !.source = ZipSource(a)] : a \in {RootedArchive, NoManifestArchive}}

\* configurations: at most n dependencies with pairwise different names
Configs(names, n) ==
    {[k \in 1..Len(c) |-> Dep(c[k][1], c[k][2])] :
        c \in {c \in UNION {[1..m -> names \X Catalog] : m \in 0..Min(n, Cardinality(names))} :
                  \A i, j \in 1..Len(c) : i # j => c[i][1] # c[j][1]}}

\* the configurations of the first run use the names in the order of NameOrder
FirstConfigs ==
    {[k \in 1..Len(c) |-> Dep(NameOrder[k], c[k])] :
        c \in UNION {[1..m -> Catalog] : m \in 0..Min(MaxDeps, Len(NameOrder))}}

Config(ds) == [k \in 1..Len(ds) |-> [name |-> ds[k].name, decl |-> ds[k].decl]]

NoRun == [config |-> <<>>, ok |-> FALSE, index |-> <<>>, disk |-> [n \in Names |-> NoDir]]

\* a run of the tool: Project() loads index.json, the build script configures
\* the dependencies, the dependencies task calls resolve_dependencies. After a
\* run that went well the build script may have been edited at will; a run that
\* failed or crashed is repeated with the same configuration.
StartRun ==
    /\ \/ pc = "new" /\ run = 0
       \/ pc \in {"saved", "crashed"} /\ run = 1
    /\ deps' \in (IF run = 0 THEN FirstConfigs
                  ELSE IF pc = "saved" /\ ~failed
                  THEN Configs(Names, MaxEdited)
                          \cup {[k \in 1..Len(deps) |-> Dep(deps[k].name, deps[k].decl)]}
                  ELSE {[k \in 1..Len(deps) |-> Dep(deps[k].name, deps[k].decl)]})
    /\ run' = run + 1
    /\ prev_run' = [config |-> Config(deps),
                    ok |-> (pc = "saved" /\ ~failed /\ raised = ""),
                    index |-> indexFile, disk |-> disk]
    /\ index' = indexFile
    /\ failed' = FALSE
    /\ pc' = "resolve"
    /\ to_be_resolved' = <<>>
    /\ to_be_mapped' = <<>>
    /\ config_to_entry' = {}
    /\ raised' = ""
    /\ raisedIn' = ""
    /\ index0' = indexFile
    /\ disk0' = disk
    /\ scanned' = disk
    /\ cleaned' = {}
    /\ moved' = {}
    /\ removed' = {}
    /\ acquired' = <<>>
    /\ checked' = <<>>
    /\ unpack_writes' = {}
    /\ world' = GoodWorld
    /\ UNCHANGED <<indexFile, disk, pack_format, next_uuid, calls, result>>

Acquire ==
    /\ pc = "acquire"
    /\ Len(acquired) < Len(to_be_resolved)
    /\ \E w \in MainWorlds(DepNamed(deps, to_be_resolved[Len(acquired) + 1]).decl) :
          AcquireWith(w)

Init ==
    /\ deps = <<>>
    /\ indexFile = <<>>
    /\ index = <<>>
    /\ disk = [n \in Names |-> NoDir]
    /\ failed = FALSE
    /\ pc = "new"
    /\ to_be_resolved = <<>>
    /\ to_be_mapped = <<>>
    /\ config_to_entry = {}
    /\ raised = ""
    /\ raisedIn = ""
    /\ index0 = <<>>
    /\ disk0 = disk
    /\ scanned = disk
    /\ cleaned = {}
    /\ moved = {}
    /\ removed = {}
    /\ acquired = <<>>
    /\ checked = <<>>
    /\ unpack_writes = {}
    /\ world = GoodWorld
    /\ pack_format = PyVersion(61)
    /\ next_uuid = 1
    /\ run = 0
    /\ prev_run = NoRun
    /\ calls = <<>>
    /\ result = FALSE

Next ==
    \/ StartRun
    \/ ResolveIndex
    \/ MatchDependencies
    \/ Acquire
    \/ SaveIndex

Spec == Init /\ [][Next]_vars

(* --------- the acquisition loop on arbitrary leftover dependencies ------ *)
LZ == Local("/p2", "p2", FALSE, <<"r">>, TRUE)
U2 == URL("http://u2", Nil, "5e884898", TRUE)
G2 == Git("git://g2", <<"sub">>, "c1", FALSE)
AcquireCatalog == {L1, LZ, U1, U2, G1, G2}

StaleIdentity == Identity("local", Nil, Nil, Nil, Nil, "/old", "old", "directory", Nil)
StaleFiles == Files("/old", GoodTree, GoodMcmeta)

\* the state lines 112-161 leave when no configured dependency matched an entry:
\* every dependency is left over; some have an entry of their name with another
\* identity, whose directory is still there
InitAcquire ==
    /\ \E n \in 1..MaxAcquireDeps : \E decls \in [1..n -> AcquireCatalog] :
       \E stale \in SUBSET (1..n) :
          /\ deps = [k \in 1..n |-> Dep(NameOrder[k], decls[k])]
          /\ to_be_resolved = [k \in 1..n |-> NameOrder[k]]
          /\ disk = [x \in Names |->
                       IF \E k \in stale : NameOrder[k] = x
                       THEN Dir(CHOOSE k \in stale : NameOrder[k] = x, StaleFiles)
                       ELSE NoDir]
          /\ LET ks == {k \in 1..n : k \in stale}
                 pos(j) == CHOOSE k \in ks : Cardinality({m \in ks : m < k}) = j - 1
             IN index = [j \in 1..Cardinality(ks) |->
                            Entry(NameOrder[pos(j)], StaleIdentity, pos(j))]
    /\ indexFile = index
    /\ index0 = index
    /\ to_be_mapped = [j \in 1..Len(index) |-> j]
    /\ config_to_entry = {}
    /\ disk0 = disk
    /\ scanned = disk
    /\ cleaned = {}
    /\ failed = FALSE
    /\ pc = "acquire"
    /\ raised = ""
    /\ raisedIn = ""
    /\ moved = {}
    /\ removed = {}
    /\ acquired = <<>>
    /\ checked = <<>>
    /\ unpack_writes = {}
    /\ world = GoodWorld
    /\ pack_format \in {PyNone, PyVersion(61)}
    /\ next_uuid = MaxAcquireDeps + 1
    /\ run = 1
    /\ prev_run = NoRun
    /\ calls = <<>>
    /\ result = FALSE

AcquireAny ==
    /\ pc = "acquire"
    /\ Len(acquired) < Len(to_be_resolved)
    /\ \E w \in Worlds(DepNamed(deps, to_be_resolved[Len(acquired) + 1]).decl) : AcquireWith(w)

NextAcquire == AcquireAny

SpecAcquire == InitAcquire /\ [][NextAcquire]_vars

(* ---------------- unpacking arbitrary ZIP archives --------------------- *)
\* member names: plain, below the root "r", with '..' components, absolute
MemberNames ==
    {<<"pack.mcmeta">>, <<"x">>, <<"r", "pack.mcmeta">>, <<"r", "x">>, <<"r", "s", "x">>,
     <<"..", "x">>, <<"..", "pack.mcmeta">>, <<"r", "..", "..", "x">>, <<"r", "..", "x">>,
     <<"..", "unpack2", "x">>, <<"/", "x">>, <<"/", "buildmc_root", "cache", "unpack", "x">>,
     <<"..", "..", "..", "..", "x">>}
Archives == {a \in SUBSET MemberNames : Cardinality(a) <= MaxArchiveEntries}
ArchiveRoots == {Nil, <<"r">>, <<"..">>, <<"r", "s">>, <<"r", "..">>}

InitUnpack ==
    /\ \E r \in ArchiveRoots :
          deps \in {<<Dep("a", Local("/p2", "p2", FALSE, r, FALSE))>>,
                    <<Dep("a", URL("http://u1", r, Nil, FALSE))>>}
    /\ to_be_resolved = <<"a">>
    /\ \/ /\ disk = [x \in Names |-> NoDir]
          /\ index = <<>>
       \/ /\ disk = [x \in Names |-> IF x = "a" THEN Dir(1, StaleFiles) ELSE NoDir]
          /\ index = <<Entry("a", StaleIdentity, 1)>>
    /\ indexFile = index
    /\ index0 = index
    /\ to_be_mapped = [j \in 1..Len(index) |-> j]
    /\ config_to_entry = {}
    /\ disk0 = disk
    /\ scanned = disk
    /\ cleaned = {}
    /\ failed = FALSE
    /\ pc = "acquire"
    /\ raised = ""
    /\ raisedIn = ""
    /\ moved = {}
    /\ removed = {}
    /\ acquired = <<>>
    /\ checked = <<>>
    /\ unpack_writes = {}
    /\ world = GoodWorld
    /\ pack_format = PyVersion(61)
    /\ next_uuid = 2
    /\ run = 1
    /\ prev_run = NoRun
    /\ calls = <<>>
    /\ result = FALSE

AcquireArchive ==
    /\ pc = "acquire"
    /\ Len(acquired) < Len(to_be_resolved)
    /\ \E a \in Archives : AcquireWith([GoodWorld EXCEPT !.source = ZipSource(a)])

NextUnpack == AcquireArchive

SpecUnpack == InitUnpack /\ [][NextUnpack]_vars

(* ------------- Phase 1 on arbitrary persisted state -------------------- *)
AnyIdentity == Identity("local", Nil, Nil, Nil, Nil, "/p1", "p1", "directory", Nil)

\* persisted indexes: entry k is named NameOrder[k]; any UUID, or none
IndexInputs ==
    UNION {[1..n -> 0..MaxUuid] : n \in 0..MaxEntries}

\* managed directories a, b, c: absent, without a readable marker, or with one
DiskInputs ==
    {[n \in Names |-> IF n = "d" THEN NoDir ELSE f[n]] :
        f \in [Names \ {"d"} -> {NoDir} \cup {Dir(u, NoFiles) : u \in 0..MaxUuid}]}

InitIndex ==
    /\ \E us \in IndexInputs :
          /\ index = [k \in 1..Len(us) |-> Entry(NameOrder[((k - 1) % 4) + 1], AnyIdentity, us[k])]
          /\ indexFile = index
          /\ index0 = index
    /\ disk \in DiskInputs
    /\ disk0 = disk
    /\ scanned = disk
    /\ cleaned = {}
    /\ deps = <<>>
    /\ failed = FALSE
    /\ pc = "resolve"
    /\ to_be_resolved = <<>>
    /\ to_be_mapped = <<>>
    /\ config_to_entry = {}
    /\ raised = ""
    /\ raisedIn = ""
    /\ moved = {}
    /\ removed = {}
    /\ acquired = <<>>
    /\ checked = <<>>
    /\ unpack_writes = {}
    /\ world = GoodWorld
    /\ pack_format = PyVersion(61)
    /\ next_uuid = MaxUuid + 1
    /\ run = 1
    /\ prev_run = NoRun
    /\ calls = <<>>
    /\ result = FALSE

NextIndex == ResolveIndex

SpecIndex == InitIndex /\ [][NextIndex]_vars

(* -------- the compatibility check on arbitrary manifests --------------- *)
\* pack format numbers of the project and of the manifests
Formats == 60..MaxFormat
RangeEnds == {55} \cup Formats

\* Project.__validate_pack_format (pack_format is an int here)
validate_pack_format(pack_type, n) == IF pack_type = "data" THEN n >= 4 ELSE n >= 1

\* Project.pack_format(main) with pack_formats_of(main) = <<n>>: what
\* var_get('project/pack_format') reads afterwards. With min_inclusive and
\* max_inclusive (lines 147-155) __pack_format is set in the same way.
\* (variant: __pack_format holds the resolved format number)
Project_pack_format_number(pack_type, n, before) ==
    IF pack_type = Nil THEN [failed |-> TRUE, value |-> before]
    ELSE IF validate_pack_format(pack_type, n)
    THEN [failed |-> FALSE, value |-> PyInt(n)]
    ELSE [failed |-> TRUE, value |-> before]

Project_pack_format(pack_type, n, before) ==
    IF pack_type = Nil THEN [failed |-> TRUE, value |-> before]
    ELSE IF validate_pack_format(pack_type, n)
    THEN [failed |-> FALSE, value |-> PyVersion(n)]
    ELSE [failed |-> TRUE, value |-> before]

\* manifests that are not a JSON object with a 'pack' object: bytes that are
\* not text; a number, a list or a string at the top level (with or without
\* 'pack' in it); a 'pack' that is a number, a list or a string (with or
\* without 'pack_format' in it)
MalformedMcmeta ==
    {[NoMcmeta EXCEPT !.json = "not_text"]}
    \cup {[NoMcmeta EXCEPT !.readable = TRUE, !.json = j, !.has_pack = h] :
              j \in {"number", "list", "str"}, h \in BOOLEAN}
    \cup {[Mcmeta(pf, PyNone) EXCEPT !.pack = k] :
              k \in {"number", "list", "str"}, pf \in {PyNone, PyOther}}

McmetaInputs ==
    {Mcmeta(pf, sf) :
        pf \in {PyInt(n) : n \in {1} \cup Formats} \cup {PyNone, PyOther, PyBool(TRUE)},
        sf \in {PyNone, PyOther, PyBool(TRUE)} \cup {PyInt(n) : n \in RangeEnds}
               \cup {PyPair(x, y) : x \in RangeEnds, y \in RangeEnds}
               \cup {PyMinMax(x, y) : x \in RangeEnds, y \in RangeEnds}}
    \cup {NoMcmeta, [NoMcmeta EXCEPT !.readable = TRUE]}
    \cup MalformedMcmeta

\* a placed dependency "a" with version_check = True and any pack.mcmeta
InitCompat ==
    /\ \E m \in McmetaInputs, t \in {GoodTree, BadTree} :
          disk = [x \in Names |-> IF x = "a" THEN Dir(1, Files("/p1", t, m)) ELSE NoDir]
    /\ deps = <<[Dep("a", Local("/p1", "p1", TRUE, Nil, TRUE)) EXCEPT !.location = "a"]>>
    /\ index = <<>>
    /\ indexFile = index
    /\ index0 = index
    /\ to_be_resolved = <<"a">>
    /\ to_be_mapped = <<>>
    /\ config_to_entry = {}
    /\ disk0 = disk
    /\ scanned = disk
    /\ cleaned = {}
    /\ failed = FALSE
    /\ pc = "project"
    /\ raised = ""
    /\ raisedIn = ""
    /\ moved = {}
    /\ removed = {}
    /\ acquired = <<"a">>
    /\ checked = <<>>
    /\ unpack_writes = {}
    /\ world = GoodWorld
    /\ pack_format = PyNone
    /\ next_uuid = 2
    /\ run = 1
    /\ prev_run = NoRun
    /\ calls = <<>>
    /\ result = FALSE

\* the build script configures the pack format
ProjectPackFormat ==
    /\ pc = "project"
    /\ \E pack_type \in {"data", "resource", Nil}, n \in {1, 3} \cup Formats :
       \E r \in {Project_pack_format(pack_type, n, pack_format)} :
          /\ pack_format' = r.value
          /\ failed' = (failed \/ r.failed)
    /\ pc' = "check"
    /\ UNCHANGED <<deps, indexFile, index, disk, to_be_resolved, to_be_mapped, config_to_entry,
                   raised, raisedIn, index0, disk0, scanned, cleaned, moved, removed, acquired,
                   checked, unpack_writes, world, next_uuid, run, prev_run, calls,
                   result>>

\* Dependency.version_check on the placed dependency
VersionCheck ==
    /\ pc = "check"
    /\ \E exception \in {version_check_raises(deps[1].location, disk, pack_format)} :
          IF exception # ""
          THEN /\ raised' = exception
               /\ raisedIn' = "version_check"
               /\ pc' = "crashed"
               /\ UNCHANGED failed
          ELSE /\ failed' = (failed \/ version_check_fails(deps[1].location, disk, pack_format))
               /\ pc' = "checked"
               /\ UNCHANGED <<raised, raisedIn>>
    /\ checked' = Append(checked, deps[1].name)
    /\ UNCHANGED <<deps, indexFile, index, disk, to_be_resolved, to_be_mapped, config_to_entry,
                   index0, disk0, scanned, cleaned, moved, removed, acquired,
                   unpack_writes, world, pack_format, next_uuid, run, prev_run, calls,
                   result>>

NextCompat ==
    \/ ProjectPackFormat
    \/ VersionCheck

SpecCompat == InitCompat /\ [][NextCompat]_vars

(* --------- matches_identity on arbitrary persisted identities ---------- *)
\* archive_root parameters: none, or a path inside the archive
RootInputs == {<<>>, <<"r">>, <<"s">>, <<"r", "s">>}
LocalDecl(path, rel, isdir, root) ==
    Local(path, rel, isdir, IF root = <<>> THEN Nil ELSE root, FALSE)
\* identities as index.json may hold them: any key may be absent
LocalIdentities ==
    {Identity(type, Nil, Nil, Nil, Nil, pabs, prel, ftype, aroot) :
        type \in {"local", "url", Nil}, pabs \in {"/p1", "/p2", Nil},
        prel \in {"p1", "p2", Nil}, ftype \in {"directory", "file", Nil},
        aroot \in {Nil, "r", "s", "r/s"}}

URLDecl(url, root, sha256_sum) ==
    URL(url, IF root = <<>> THEN Nil ELSE root, sha256_sum, FALSE)
GitDecl(url, root, checkout) ==
    Git(url, IF root = <<>> THEN Nil ELSE root, checkout, FALSE)
UrlInputs == {"http://u1", "http://u2"}
Sha256Inputs == {Nil, "h1", "h2"}
CheckoutInputs == {Nil, "c1", "c2"}
\* identities of the 'url' and 'git' variants, any key absent
RemoteIdentities ==
    {Identity(type, url, root, sha, checkout, Nil, Nil, Nil, Nil) :
        type \in {"url", "git"}, url \in UrlInputs \cup {Nil},
        root \in {Nil, "r", "s", "r/s"}, sha \in Sha256Inputs, checkout \in CheckoutInputs}

\* one configured dependency "b" and one persisted entry "a"
InitIdentity ==
    /\ \/ \E path \in {"/p1", "/p2"}, rel \in {"p1", "p2"}, isdir \in BOOLEAN,
             root \in RootInputs :
             deps = <<Dep("b", LocalDecl(path, rel, isdir, root))>>
       \/ \E url \in UrlInputs, root \in RootInputs, sha \in Sha256Inputs :
             deps = <<Dep("b", URLDecl(url, root, sha))>>
       \/ \E url \in UrlInputs, root \in RootInputs, checkout \in CheckoutInputs :
             deps = <<Dep("b", GitDecl(url, root, checkout))>>
    /\ \E id \in LocalIdentities \cup RemoteIdentities : index = <<Entry("a", id, 1)>>
    /\ indexFile = index
    /\ index0 = index
    /\ disk = [x \in Names |-> IF x = "a" THEN Dir(1, NoFiles) ELSE NoDir]
    /\ disk0 = disk
    /\ scanned = disk
    /\ cleaned = {}
    /\ failed = FALSE
    /\ pc = "match_identity"
    /\ to_be_resolved = <<"b">>
    /\ to_be_mapped = <<1>>
    /\ config_to_entry = {}
    /\ raised = ""
    /\ raisedIn = ""
    /\ moved = {}
    /\ removed = {}
    /\ acquired = <<>>
    /\ checked = <<>>
    /\ unpack_writes = {}
    /\ world = GoodWorld
    /\ pack_format = PyVersion(61)
    /\ next_uuid = 2
    /\ run = 1
    /\ prev_run = NoRun
    /\ calls = <<>>
    /\ result = FALSE

\* dependency.matches_identity(entry['identity']), as line 141 calls it
MatchesIdentity ==
    /\ pc = "match_identity"
    /\ result' = matches_identity(deps[1].decl, index[1].identity)
    /\ pc' = "matched"
    /\ UNCHANGED <<deps, indexFile, index, disk, failed, to_be_resolved, to_be_mapped,
                   config_to_entry, raised, raisedIn, index0, disk0, scanned, cleaned,
                   moved, removed, acquired, checked, unpack_writes, world, pack_format,
                   next_uuid, run, prev_run, calls>>

NextIdentity == MatchesIdentity

SpecIdentity == InitIdentity /\ [][NextIdentity]_vars

(* ----------------- util.download on arbitrary responses ---------------- *)
\* a file or a response body is a sequence of blocks
RightBody == <<1>>
\* the contents a checksum may be given for
RightBodies == {RightBody, <<1, 1>>}
Bodies == {<<>>, <<2>>, <<2, 2>>, <<2, 1>>} \cup RightBodies
\* what requests.get meets at one attempt: a body, an HTTP error status, or no
\* connection at all
Responses == [kind : {"body"}, body : Bodies]
             \cup {[kind |-> k, body |-> <<>>] : k \in {"http_error", "connection_error"}}

\* hashlib: algorithm().hexdigest() of a content; different contents have
\* different digests
hexdigest(content) == content

\* fp.seek(0) and fp.write(chunk) for every chunk: the body overwrites the start
\* of the file, what was behind it stays
WriteFromStart(file, body) ==
    [k \in 1..(IF Len(body) > Len(file) THEN Len(body) ELSE Len(file)) |->
        IF k <= Len(body) THEN body[k] ELSE file[k]]

\* the loop of download, lines 28-70; st: attempts made, file, outcome
RECURSIVE download_attempts(_, _, _)
download_attempts(k, w, st) ==
    IF k > w.retries THEN [st EXCEPT !.ret = FALSE, !.over = TRUE]
    ELSE IF w.responses[k].kind = "connection_error"
    THEN [st EXCEPT !.attempts = k, !.raised = "ConnectionError", !.over = TRUE]
    ELSE IF w.responses[k].kind = "http_error"
    THEN download_attempts(k + 1, w, [st EXCEPT !.attempts = k])
    ELSE IF w.checksum = Nil
    THEN [st EXCEPT !.attempts = k, !.file = WriteFromStart(st.file, w.responses[k].body),
                    !.ret = TRUE, !.over = TRUE]
    ELSE IF ~w.readable
    THEN [st EXCEPT !.attempts = k, !.file = WriteFromStart(st.file, w.responses[k].body),
                    !.raised = "UnsupportedOperation", !.over = TRUE]
    ELSE IF hexdigest(WriteFromStart(st.file, w.responses[k].body)) = w.checksum
    THEN [st EXCEPT !.attempts = k, !.file = WriteFromStart(st.file, w.responses[k].body),
                    !.ret = TRUE, !.over = TRUE]
    ELSE download_attempts(k + 1, w,
             [st EXCEPT !.attempts = k,
                        !.file = WriteFromStart(st.file, w.responses[k].body)])

\* a call download(fp, url, retries = ..., checksum = ...) on an empty file:
\* fp is opened for writing only ('wb', URL.acquire) or can be read back (BytesIO)
InitDownload ==
    /\ \E retries \in 0..MaxRetries, readable \in BOOLEAN,
          responses \in [1..MaxRetries -> Responses] :
          \/ world = [retries |-> retries, readable |-> readable, checksum |-> Nil,
                      responses |-> responses, file |-> <<>>]
          \/ \E right \in RightBodies :
                world = [retries |-> retries, readable |-> readable,
                         checksum |-> hexdigest(right),
                         responses |-> responses, file |-> <<>>]
    /\ deps = <<Dep("a", URL("http://u1", Nil, Nil, FALSE))>>
    /\ index = <<>>
    /\ indexFile = index
    /\ index0 = index
    /\ disk = [x \in Names |-> NoDir]
    /\ disk0 = disk
    /\ scanned = disk
    /\ cleaned = {}
    /\ failed = FALSE
    /\ pc = "download"
    /\ to_be_resolved = <<"a">>
    /\ to_be_mapped = <<>>
    /\ config_to_entry = {}
    /\ raised = ""
    /\ raisedIn = ""
    /\ moved = {}
    /\ removed = {}
    /\ acquired = <<>>
    /\ checked = <<>>
    /\ unpack_writes = {}
    /\ pack_format = PyVersion(61)
    /\ next_uuid = 1
    /\ run = 1
    /\ prev_run = NoRun
    /\ calls = <<>>
    /\ result = FALSE

Download ==
    /\ pc = "download"
    /\ \E d \in {download_attempts(1, world, [attempts |-> 0, file |-> world.file, ret |-> FALSE,
                                              raised |-> "", over |-> FALSE])} :
          /\ calls' = [k \in 1..d.attempts |-> "get"]
          /\ result' = d.ret
          /\ raised' = d.raised
          /\ raisedIn' = IF d.raised # "" THEN "download" ELSE raisedIn
          /\ world' = [world EXCEPT !.file = d.file]
          /\ pc' = IF d.raised # "" THEN "crashed" ELSE "downloaded"
    /\ UNCHANGED <<deps, indexFile, index, disk, failed, to_be_resolved, to_be_mapped,
                   config_to_entry, index0, disk0, scanned, cleaned, moved, removed, acquired,
                   checked, unpack_writes, pack_format, next_uuid, run, prev_run>>

NextDownload == Download

SpecDownload == InitDownload /\ [][NextDownload]_vars

(* ----------------------- claims about Phase 1 -------------------------- *)
\* Phase 1 of the pass has run: it returned, or an exception left it
Phase1Returned == pc \notin {"new", "resolve", "crashed"}
Phase1Over == Phase1Returned \/ (pc = "crashed" /\ raisedIn = "resolve_index")

EntryUuids(idx) == {idx[k].uuid : k \in 1..Len(idx)}
\* directories with a readable marker that no persisted entry claims
OrphanDirs == {d \in Names : /\ disk0[d].exists
                             /\ disk0[d].uuid # NoUuid
                             /\ disk0[d].uuid \notin EntryUuids(index0)}
\* directories that share their marker UUID with another directory
DuplicateDirs == {d \in Names : /\ disk0[d].exists
                                /\ disk0[d].uuid # NoUuid
                                /\ \E e \in Names \ {d} : /\ disk0[e].exists
                                                          /\ disk0[e].uuid = disk0[d].uuid}
\* marker UUIDs of the directories that survived the scan
SurvivingUuids == {scanned[d].uuid : d \in {x \in Names : scanned[x].exists}}

\* C3: every directory with a readable marker UUID that no persisted entry
\* has is deleted by Phase 1, and the cleanup step deletes no directory whose
\* UUID an entry claims.
C3_OrphanDirsDeleted ==
    Phase1Over =>
        /\ \A d \in OrphanDirs : ~disk[d].exists
        /\ \A d \in cleaned : disk0[d].uuid \notin EntryUuids(index0)

\* C4: every entry whose UUID matches no surviving directory (or that has no
\* UUID) is dropped by Phase 1, wherever it stands, and every entry whose UUID
\* matches a surviving directory is kept. (Stated for directories with
\* pairwise different marker UUIDs; shared UUIDs are the case of C5.)
C4_OrphanEntriesDropped ==
    (Phase1Over /\ DuplicateDirs = {}) =>
        /\ \A k \in 1..Len(index) : index[k].uuid \in SurvivingUuids
        /\ \A u \in EntryUuids(index0) \cap SurvivingUuids : u \in EntryUuids(index)

\* C5: directories sharing one marker UUID are all deleted in Phase 1,
\* whatever the index holds, and no remaining entry has their UUID.
C5_DuplicateUuidsDeleted ==
    Phase1Over =>
        \A d \in DuplicateDirs :
            /\ ~disk[d].exists
            /\ disk0[d].uuid \notin EntryUuids(index)

\* C6: after resolve_index, UUID equality is a one-to-one correspondence
\* between the remaining entries and the existing managed directories.
C6_Phase1OneToOne ==
    pc = "match_name" =>
        /\ \A k \in 1..Len(index) :
              Cardinality({d \in Names : disk[d].exists /\ disk[d].uuid = index[k].uuid}) = 1
        /\ \A d \in Names : disk[d].exists =>
              Cardinality({k \in 1..Len(index) : index[k].uuid = disk[d].uuid}) = 1

(* ---------------- claims about two runs in a row ---------------------- *)
\* the second run repeats the configuration of a first run that went well
SecondRunUnchanged == run = 2 /\ prev_run.ok /\ Config(deps) = prev_run.config
WithoutUuids(idx) == [k \in 1..Len(idx) |-> [name |-> idx[k].name, identity |-> idx[k].identity]]

\* C1: a second run with unchanged configuration and disk acquires no
\* dependency, deletes and renames no managed directory, and saves an index
\* equal to the first run's except for the UUIDs.
C1_SecondRunIdempotent ==
    SecondRunUnchanged =>
        /\ acquired = <<>>
        /\ cleaned = {} /\ removed = {}
        /\ \A m \in moved : m[1] = m[2]
        /\ \A n \in Names : disk[n].exists = prev_run.disk[n].exists
        /\ raised = ""
        /\ pc = "saved" => WithoutUuids(indexFile) = WithoutUuids(prev_run.index)

\* resolve_dependencies is over: it returned, or an exception left it
ResolveOver == pc \in {"returned", "saved"} \/ (pc = "crashed" /\ raisedIn # "save_index")

\* entry k of the persisted index and the configured dependency d are a rename:
\* the names differ, d matches the entry's identity, and the pair is the only
\* candidate (d matches no other entry, no other dependency matches entry k)
IsRename(k, d) ==
    /\ index0[k].name # d.name
    /\ matches_identity(d.decl, index0[k].identity)
    /\ \A j \in 1..Len(index0) : j # k => ~matches_identity(d.decl, index0[j].identity)
    /\ \A e \in 1..Len(deps) :
          deps[e].name # d.name => ~matches_identity(deps[e].decl, index0[k].identity)

\* C2: an entry named A whose identity a dependency named B matches (no entry
\* named B matching it) is renamed: the directory A becomes B, the entry gets
\* the name B, the two are paired, and B is not acquired - whatever the other
\* entries and dependencies are.
C2_RenameDetected ==
    (ResolveOver /\ run = 2 /\ prev_run.ok) =>
        \A k \in 1..Len(index0) : \A e \in 1..Len(deps) :
            IsRename(k, deps[e]) =>
                /\ <<index0[k].name, deps[e].name>> \in moved
                /\ disk[deps[e].name].exists
                /\ disk[deps[e].name].files = disk0[index0[k].name].files
                /\ \E j \in 1..Len(index) :
                      /\ index[j].name = deps[e].name
                      /\ index[j].uuid = index0[k].uuid
                      /\ <<deps[e].name, j>> \in config_to_entry
                /\ \A i \in 1..Len(acquired) : acquired[i] # deps[e].name

(* ---------------- claims about the acquisition loop -------------------- *)
LastAcquired == acquired[Len(acquired)]
\* project.has_failed() at line 170: acquire of the last dependency left the
\* fail flag set (the version check of that dependency was not reached)
AcquireLeftFailed ==
    /\ acquired # <<>>
    /\ raisedIn # "acquire"
    /\ failed
    /\ \A i \in 1..Len(checked) : checked[i] # LastAcquired

\* C7: when acquire leaves the fail flag set, resolve_dependencies returns at
\* once (no later dependency is acquired or checked), no directory named after
\* the failed dependency exists, and the directories of the dependencies
\* acquired before it are left in place.
C7_FailFast ==
    AcquireLeftFailed =>
        /\ pc = "returned"
        /\ ~disk[LastAcquired].exists
        /\ \A i \in 1..(Len(acquired) - 1) : disk[acquired[i]].exists

\* the first of two leftover dependencies failed, its stale directory is gone
C7_Witness ==
    /\ AcquireLeftFailed
    /\ pc = "returned"
    /\ Len(acquired) = 1
    /\ Len(to_be_resolved) = 2
    /\ disk0[LastAcquired].exists
    /\ ~disk[LastAcquired].exists

\* the failure paths of acquire, read off the declaration of the dependency
\* acquired last and the answers of the outside world to it
LastDecl == DepNamed(deps, LastAcquired).decl
DownloadFailed == LastDecl.type = "url" /\ world.download # "ok"
GitMissing == LastDecl.type = "git" /\ ~world.git_installed
CloneFailed ==
    /\ LastDecl.type = "git"
    /\ world.git_installed
    /\ world.clone # 0 \/ (LastDecl.checkout # Nil /\ world.checkout_ref # 0)
MissingRoot == LastDecl.type = "git" /\ ~world.root_is_dir
\* the placement routine is reached with the source the world holds
PlacementReached == ~DownloadFailed /\ ~GitMissing /\ ~CloneFailed /\ ~MissingRoot
SourceLacksManifest ==
    IF world.source.kind = "dir" THEN Manifest \notin world.source.tree
    ELSE IF world.source.kind = "file"
    THEN (IF LastDecl.root = Nil THEN Manifest ELSE LastDecl.root \o Manifest)
            \notin world.source.archive
    ELSE TRUE
MissingManifest == PlacementReached /\ SourceLacksManifest
PlacementFailed ==
    /\ PlacementReached
    /\ ~disk0[LastAcquired].exists
    /\ world.place # "ok"
FailurePath ==
    DownloadFailed \/ GitMissing \/ CloneFailed \/ MissingRoot \/ MissingManifest
        \/ PlacementFailed

\* C8: on every failure path of acquire (download failure, Git missing,
\* clone/checkout failure, missing root, missing manifest, placement failure)
\* acquire returns without raising, the fail flag is set and location is
\* unset; location is set only when the acquisition succeeded.
C8_AcquireFailureContract ==
    acquired # <<>> =>
        /\ FailurePath =>
              /\ raisedIn # "acquire"
              /\ failed
              /\ DepNamed(deps, LastAcquired).location = Nil
        /\ DepNamed(deps, LastAcquired).location # Nil => ~FailurePath

\* C9: a source (ZIP archive with or without root, or directory) without
\* pack.mcmeta at the expected root makes the placement routine set the fail
\* flag and return no location, and no directory named after the dependency
\* exists once resolve_dependencies is over.
C9_ManifestEnforced ==
    (acquired # <<>> /\ MissingManifest) =>
        /\ failed
        /\ raisedIn # "acquire"
        /\ DepNamed(deps, LastAcquired).location = Nil
        /\ pc = "returned"
        /\ ~disk[LastAcquired].exists

C9_Witness ==
    /\ acquired # <<>>
    /\ MissingManifest
    /\ world.source.kind = "file"
    /\ LastDecl.root # Nil
    /\ disk0[LastAcquired].exists
    /\ pc = "returned"

(* ---------------- claims about unpacking archives ---------------------- *)
\* the destination of a member once the root is stripped (lines 310-317)
StrippedDestination(name) == FileDestination(name, deps[1].decl.root)
\* the member is not left out for lying outside the root, and its destination
\* is not strictly below the unpack working directory
Escapes(name) ==
    /\ ~StrippedDestination(name).skip
    /\ ~InParents(UnpackDir, StrippedDestination(name).path)

\* C10: whatever the member names and the root, unpacking writes no file
\* outside the scratch directories unpack and unpack2, and a member whose
\* destination is not strictly below the unpack directory is skipped.
C10_ArchiveContained ==
    acquired # <<>> =>
        /\ \A f \in unpack_writes : InParents(UnpackDir, f) \/ InParents(Unpack2Dir, f)
        /\ \A name \in world.source.archive :
              Escapes(name) =>
                 \A f \in unpack_writes :
                    /\ f # StrippedDestination(name).path
                    /\ ~InParents(StrippedDestination(name).path, f)

C10_Witness ==
    /\ acquired # <<>>
    /\ unpack_writes # {}
    /\ \E name \in world.source.archive : Escapes(name)

(* ---------------- claims about the compatibility check ----------------- *)
CheckedManifest == disk["a"].files.mcmeta
ManifestDeclaresInt ==
    /\ Manifest \in disk["a"].files.tree
    /\ CheckedManifest.readable
    /\ CheckedManifest.has_pack
    /\ CheckedManifest.pack_format.t = "int"
\* the project's pack format was configured through Project.pack_format
ProjectFormatConfigured == pack_format.t \in {"int", "Version"}
\* the inclusive range a supported_formats value denotes
DenotesRange(sf) == sf.t \in {"int", "list2", "dict2"}
RangeMin(sf) == sf.a
RangeMax(sf) == IF sf.t = "int" THEN sf.a ELSE sf.b
InRange(n, sf) == RangeMin(sf) <= n /\ n <= RangeMax(sf)

\* C11: with the project's pack format configured as P and a manifest declaring
\* the integer pack_format D, the check leaves the fail flag clear exactly when
\* supported_formats is absent and P = D, or supported_formats denotes a range
\* that contains both D and P
C11_CompatibilityResult ==
    (pc = "checked" /\ ProjectFormatConfigured /\ ManifestDeclaresInt) =>
        (~failed <=>
            \/ /\ CheckedManifest.supported_formats = PyNone
               /\ pack_format.a = CheckedManifest.pack_format.a
            \/ /\ DenotesRange(CheckedManifest.supported_formats)
               /\ InRange(CheckedManifest.pack_format.a, CheckedManifest.supported_formats)
               /\ InRange(pack_format.a, CheckedManifest.supported_formats))

(* ------------------- claims about identity matching -------------------- *)
MatchedDecl == deps[1].decl
MatchedIdentity == index[1].identity
DeclFileType == IF MatchedDecl.is_dir THEN "directory" ELSE "file"
LocalMatched == pc = "matched" /\ MatchedDecl.type = "local"
\* the archive_root the dependency was declared with, as index.json writes paths
GivenRoot == IF MatchedDecl.root # Nil THEN PathStr(MatchedDecl.root) ELSE Nil
PathsAgree ==
    \/ MatchedIdentity.path_absolute = MatchedDecl.path
    \/ MatchedIdentity.path_relative = MatchedDecl.rel

\* C12 (as stated): a Local dependency matches an identity exactly when the type
\* is 'local', one of the two paths agrees, the file type agrees and the
\* identity's archive_root equals the archive_root the dependency was given
C12_LocalMatchesGivenRoot ==
    LocalMatched =>
        (result <=> /\ MatchedIdentity.type = "local"
                    /\ PathsAgree
                    /\ MatchedIdentity.file_type = DeclFileType
                    /\ MatchedIdentity.archive_root = GivenRoot)

\* C12 (amended): ... and the identity's archive_root equals the archive_root of
\* the dependency's own identity(): the one it was given when its path is a
\* file, none when its path is a directory
C12_LocalMatchesIdentity ==
    LocalMatched =>
        (result <=> /\ MatchedIdentity.type = "local"
                    /\ PathsAgree
                    /\ MatchedIdentity.file_type = DeclFileType
                    /\ MatchedIdentity.archive_root = (IF MatchedDecl.is_dir THEN Nil ELSE GivenRoot))

\* the project moved: another absolute path, the same relative path, a match
C12_Witness ==
    /\ LocalMatched
    /\ result = TRUE
    /\ MatchedIdentity.path_absolute # MatchedDecl.path
    /\ MatchedIdentity.path_relative = MatchedDecl.rel

(* ------------------------ claims about Git.acquire --------------------- *)
\* Git.acquire of a dependency with a checkout ref ran its git commands
GitWithRef ==
    /\ acquired # <<>>
    /\ LastDecl.type = "git"
    /\ LastDecl.checkout # Nil
    /\ world.git_installed
MinimalSteps == {"init", "remote_add", "fetch", "checkout_fetch_head", "submodule_update"}
\* a command of the minimal sequence ends with a return code other than 0
MinimalStepFails == \E step \in MinimalSteps : world[step] # 0
FallbackRun == \E k \in 1..Len(calls) : calls[k] = "clone"
FallbackFails == world.clone # 0 \/ world.checkout_ref # 0

\* C13: with a checkout ref, the fallback clone runs exactly when a step of the
\* minimal sequence failed; when the fallback fails too, the fail flag is set
\* and location stays unset
C13_GitFallback ==
    GitWithRef =>
        /\ FallbackRun <=> MinimalStepFails
        /\ (FallbackRun /\ FallbackFails) =>
               (failed /\ DepNamed(deps, LastAcquired).location = Nil)

(* -------------------- claims about failures of Phase 1 ----------------- *)
\* C14: whatever the persisted entries and the managed directories are, Phase 1
\* ends without an exception and without setting the fail flag
C14_RepairNeverFatal ==
    Phase1Over => (raised = "" /\ pc # "crashed" /\ ~failed)

(* ------------------------ claims about save_index ---------------------- *)
\* tasks.post ran save_index after a resolve_dependencies that did not fail
SaveIndexOver == pc = "saved" \/ (pc = "crashed" /\ raisedIn = "save_index")
SavedAfterSuccess == SaveIndexOver /\ ~failed
\* the UUID index.json held for the dependency named n when this run started
PersistedUuids(n) == {index0[j].uuid : j \in {j \in 1..Len(index0) : index0[j].name = n}}

\* C15: after save_index following a successful resolution, index.json holds one
\* entry per configured dependency, in configured order, with its name, its
\* identity() and a UUID that is also in the marker file of <root>/<name>; the
\* UUIDs are pairwise distinct and differ from those of the previous run
C15_SaveIndexPostcondition ==
    SavedAfterSuccess =>
        /\ Len(indexFile) = Len(deps)
        /\ \A k \in 1..Len(deps) :
              /\ indexFile[k].name = deps[k].name
              /\ indexFile[k].identity = identity(deps[k].decl)
              /\ indexFile[k].uuid # NoUuid
              /\ disk[deps[k].name].exists
              /\ disk[deps[k].name].uuid = indexFile[k].uuid
              /\ indexFile[k].uuid \notin PersistedUuids(deps[k].name)
              /\ indexFile[k].uuid \notin EntryUuids(index0)
        /\ \A j, k \in 1..Len(deps) : j # k => indexFile[j].uuid # indexFile[k].uuid

(* ------------------------- claims about download ----------------------- *)
DownloadOver == pc \in {"downloaded", "crashed"} /\ raisedIn \in {"", "download"}
AttemptsMade == Len(calls)
\* attempt k gets a non-error response whose body has the wanted checksum
GoodResponse(k) ==
    /\ world.responses[k].kind = "body"
    /\ world.checksum # Nil => hexdigest(world.responses[k].body) = world.checksum
\* attempt k ends in an HTTP error or in a body with another checksum
BadResponse(k) ==
    \/ world.responses[k].kind = "http_error"
    \/ /\ world.responses[k].kind = "body"
       /\ world.checksum # Nil
       /\ hexdigest(world.responses[k].body) # world.checksum
\* every attempt meets an answer of one of these two kinds
AnsweredAttempts == \A k \in 1..world.retries : GoodResponse(k) \/ BadResponse(k)
FirstGood == CHOOSE k \in 1..world.retries :
                 GoodResponse(k) /\ \A j \in 1..(k - 1) : ~GoodResponse(j)

\* C16: download makes at most `retries` attempts; it returns True right after
\* the first attempt with a non-error response and a matching checksum; it
\* returns False exactly when all `retries` attempts ended in an HTTP error or
\* a checksum mismatch
C16_BoundedRetries ==
    (DownloadOver /\ AnsweredAttempts) =>
        /\ AttemptsMade <= world.retries
        /\ (\E k \in 1..world.retries : GoodResponse(k)) =>
               (pc = "downloaded" /\ result = TRUE /\ AttemptsMade = FirstGood)
        /\ (pc = "downloaded" /\ result = FALSE) <=> (\A k \in 1..world.retries : BadResponse(k))

(* --------------- claims about the state a full run leaves -------------- *)
ManagedDirs == {n \in Names : disk[n].exists}
ConfiguredNames == {deps[k].name : k \in 1..Len(deps)}

\* C17: after a resolve_dependencies that did not fail and save_index, every
\* directory of the managed root carries the UUID of exactly one saved entry,
\* every saved entry's UUID is the marker of exactly one directory, and no
\* directory of a dependency that is no longer configured is left
C17_IndexInvariant ==
    SavedAfterSuccess =>
        /\ \A n \in ManagedDirs :
              Cardinality({k \in 1..Len(indexFile) : indexFile[k].uuid = disk[n].uuid}) = 1
        /\ \A k \in 1..Len(indexFile) :
              Cardinality({n \in ManagedDirs : disk[n].uuid = indexFile[k].uuid}) = 1
        /\ ManagedDirs \subseteq ConfiguredNames

(* ------------- claims about stale entries and directories -------------- *)
\* resolve_dependencies returned (tasks.post may have run save_index since)
ResolveReturned == pc \in {"returned", "saved"} \/ (pc = "crashed" /\ raisedIn = "save_index")
\* reconciled entries no configured dependency was paired with, by position
UnmatchedEntries == {to_be_mapped[i] : i \in 1..Len(to_be_mapped)}
MatchedEntries == {p[2] : p \in config_to_entry}

\* C18: when resolve_dependencies returns, the directory of every entry matched
\* by no dependency has been deleted by the removal step, also when some
\* dependencies had to be acquired; the directory of no matched entry has
C18_StaleEntriesRemoved ==
    ResolveReturned =>
        /\ \A j \in UnmatchedEntries : index[j].name \in removed
        /\ \A j \in MatchedEntries : index[j].name \notin removed


\* where the files of a declaration come from (its path or its URL)
SourceOf(decl) == IF decl.type = "local" THEN decl.path ELSE decl.url
\* the dependency deps[k] took over the name of a persisted entry of another source
ChangedSource(k) ==
    \E j \in 1..Len(index0) : /\ index0[j].name = deps[k].name
                              /\ ~matches_identity(deps[k].decl, index0[j].identity)

\* C19: a dependency with the name of a persisted entry whose identity it does
\* not match is acquired again: when resolve_dependencies has returned without
\* failure, <root>/<name> holds the files of the new source, not the stale ones
C19_ChangedSourceReacquired ==
    (ResolveReturned /\ ~failed) =>
        \A k \in 1..Len(deps) :
            ChangedSource(k) =>
                /\ disk[deps[k].name].exists
                /\ disk[deps[k].name].files.src = SourceOf(deps[k].decl)

(* -------------------- claims about the version check ------------------- *)
\* the dependency named n asked for the check and its acquire succeeded
Checkable(n) ==
    /\ DepNamed(deps, n).decl.do_version_check
    /\ DepNamed(deps, n).location # Nil
VersionChecked == {checked[i] : i \in 1..Len(checked)}

\* C20: the dependencies checked so far are exactly the successfully acquired
\* ones with version_check requested, in the order of their acquisition, each
\* checked before the next dependency is acquired; after a check that set the
\* fail flag nothing more is acquired; a dependency with version_check false
\* is never checked
C20_VersionCheckOrdering ==
    /\ checked = SelectSeq(acquired, Checkable)
    /\ \A n \in VersionChecked : DepNamed(deps, n).decl.do_version_check
    /\ (failed /\ checked # <<>>) =>
           /\ pc = "returned"
           /\ checked[Len(checked)] = LastAcquired

\* the first of two leftover dependencies was acquired and checked, the check
\* set the fail flag, and the second one was not acquired
C20_Witness ==
    /\ Len(to_be_resolved) = 2
    /\ acquired = <<to_be_resolved[1]>>
    /\ checked = acquired
    /\ DepNamed(deps, acquired[1]).location # Nil
    /\ failed
    /\ pc = "returned"

(* ------------- claims about archives without and with a root ----------- *)
\* the one dependency of the pass, acquired from a ZIP archive
ArchiveAcquired == acquired # <<>> /\ world.source.kind = "file"
\* members the containment test of line 319 lets through
Kept(name, archive_root) ==
    /\ ~FileDestination(name, archive_root).skip
    /\ InParents(UnpackDir, FileDestination(name, archive_root).path)

\* C21: a ZIP archive with a top-level pack.mcmeta and no configured root: every
\* member that is not skipped is written as the file <unpack dir>/<member path>,
\* the manifest validation passes, location is set and the fail flag is clear;
\* when <root>/<name> did not exist, it receives the files at the same paths
C21_ZipWithoutRoot ==
    (ArchiveAcquired /\ deps[1].decl.root = Nil /\ Manifest \in world.source.archive) =>
        /\ \A name \in world.source.archive :
              Kept(name, Nil) => FileDestination(name, Nil).path \in unpack_writes
        /\ ~failed
        /\ deps[1].location = deps[1].name
        /\ ~disk0[deps[1].name].exists =>
               /\ disk[deps[1].name].exists
               /\ disk[deps[1].name].files.tree =
                     {RelativeTo(FileDestination(name, Nil).path, UnpackDir) :
                         name \in {n \in world.source.archive : Kept(n, Nil)}}


\* a path without '..' components that is not absolute
PlainPath(path) == \A i \in 1..Len(path) : path[i] \notin {"..", "/"}
HasPrefix(name, R) == Len(name) > Len(R) /\ SubSeq(name, 1, Len(R)) = R
StripPrefix(name, R) == SubSeq(name, Len(R) + 1, Len(name))
ConfiguredRoot == deps[1].decl.root
\* an archive with the manifest below the configured root R
RootedAcquired ==
    /\ ArchiveAcquired
    /\ ConfiguredRoot # Nil
    /\ PlainPath(ConfiguredRoot)
    /\ (ConfiguredRoot \o Manifest) \in world.source.archive
\* the members whose resolved path lies below <unpack dir>/R
BelowRoot == {name \in world.source.archive :
                 InParents(Resolve(Join(UnpackDir, ConfiguredRoot)),
                           Resolve(Join(UnpackDir, name)))}

\* C22: with a root R and R/pack.mcmeta in the archive, the manifest validation
\* passes, every member R/<p> is written to <unpack dir>/<p>, a member that is
\* not below R is written nowhere below the unpack directory, and the managed
\* directory receives the stripped paths of the members below R and nothing else
C22_ArchiveRerooted ==
    RootedAcquired =>
        /\ ~failed
        /\ deps[1].location = deps[1].name
        /\ \A name \in world.source.archive :
              (PlainPath(name) /\ HasPrefix(name, ConfiguredRoot)) =>
                  (UnpackDir \o StripPrefix(name, ConfiguredRoot)) \in unpack_writes
        /\ \A name \in world.source.archive :
              (PlainPath(name) /\ ~HasPrefix(name, ConfiguredRoot)) => name \notin BelowRoot
        /\ \A f \in unpack_writes :
              InParents(UnpackDir, f) =>
                  \E name \in BelowRoot :
                      f = UnpackDir \o RelativeTo(Resolve(Join(UnpackDir, name)),
                                                  Resolve(Join(UnpackDir, ConfiguredRoot)))
        /\ ~disk0[deps[1].name].exists =>
               /\ disk[deps[1].name].exists
               /\ disk[deps[1].name].files.tree =
                     {RelativeTo(Resolve(Join(UnpackDir, name)),
                                 Resolve(Join(UnpackDir, ConfiguredRoot))) : name \in BelowRoot}

\* an archive with the manifest and a member below R and a member outside R was
\* placed into a new managed directory
C22_Witness ==
    /\ RootedAcquired
    /\ ~disk0[deps[1].name].exists
    /\ disk[deps[1].name].exists
    /\ \E name \in world.source.archive : PlainPath(name) /\ ~HasPrefix(name, ConfiguredRoot)
    /\ Cardinality(BelowRoot) >= 2


(* ------------- claims about Git and URL identity matching -------------- *)
GitMatched == pc = "matched" /\ MatchedDecl.type = "git"
URLMatched == pc = "matched" /\ MatchedDecl.type = "url"

\* C23: a Git dependency matches an identity only if the type is 'git', root and
\* checkout equal the dependency's (absent equals only absent) and the
\* identity's repository URL equals the dependency's URL
C23_GitMatchesOnlySameUrl ==
    (GitMatched /\ result) =>
        /\ MatchedIdentity.type = "git"
        /\ MatchedIdentity.root = GivenRoot
        /\ MatchedIdentity.checkout = MatchedDecl.checkout
        /\ MatchedIdentity.url = MatchedDecl.url

\* C24: a URL dependency matches an identity exactly when the type is 'url', the
\* url is the dependency's, and root and sha256 each equal the dependency's
\* (absent equals only absent); it matches its own identity()
C24_UrlMatchesIdentity ==
    URLMatched =>
        /\ result <=> /\ MatchedIdentity.type = "url"
                      /\ MatchedIdentity.url = MatchedDecl.url
                      /\ MatchedIdentity.root = GivenRoot
                      /\ MatchedIdentity.sha256 = MatchedDecl.sha256
        /\ MatchedIdentity = identity(MatchedDecl) => result

\* a URL dependency with root and checksum was matched to an identity that
\* differs from its own only in the checksum, and to its own identity
C24_Witness ==
    /\ URLMatched
    /\ MatchedDecl.root # Nil
    /\ MatchedDecl.sha256 # Nil
    /\ MatchedIdentity.type = "url"
    /\ MatchedIdentity.url = MatchedDecl.url
    /\ MatchedIdentity.root = GivenRoot
    /\ \/ MatchedIdentity.sha256 = Nil /\ ~result
       \/ MatchedIdentity = identity(MatchedDecl) /\ result


(* ------- claims about supported_formats shapes and check failures ------ *)
\* the check of the placed dependency returned
CheckReturned == pc = "checked"
\* the manifest is a JSON object with a 'pack' object that declares an integer
WellFormedManifest ==
    /\ ManifestDeclaresInt
    /\ CheckedManifest.json = "object"
    /\ CheckedManifest.pack = "object"
\* what the check answers for the same project and the same manifest with
\* another supported_formats value: TRUE when it sets the fail flag
OutcomeWith(sf) ==
    version_check_fails(deps[1].location,
        [disk EXCEPT !["a"].files.mcmeta.supported_formats = sf], pack_format)
SupportedFormats == CheckedManifest.supported_formats

Unusable ==
    \/ pack_format.t = "none"
    \/ Manifest \notin disk["a"].files.tree
    \/ ~CheckedManifest.readable
    \/ CheckedManifest.json # "object"
    \/ ~CheckedManifest.has_pack
    \/ CheckedManifest.pack # "object"
    \/ CheckedManifest.pack_format.t \in {"none", "other"}
    \/ CheckedManifest.supported_formats.t = "other"

ReturnedTrue == pc = "downloaded" /\ result = TRUE
\* the body of the attempt download returned after
SuccessfulBody == world.responses[AttemptsMade].body

\* C27: whenever download returns True, the destination stream holds exactly
\* the body of the successful attempt, and with a checksum given its digest is
\* that checksum
C27_ContentIsVerifiedBody ==
    ReturnedTrue =>
        /\ world.file = SuccessfulBody
        /\ world.checksum # Nil => hexdigest(world.file) = world.checksum


(* ---------- claims about the directories resolution leaves ------------- *)
\* C28: after resolve_dependencies returned with the fail flag clear, every
\* configured dependency has a managed directory under its name that holds the
\* files of that dependency's source
C28_ResolvedHaveDirectory ==
    (ResolveReturned /\ ~failed) =>
        \A k \in 1..Len(deps) :
            /\ disk[deps[k].name].exists
            /\ disk[deps[k].name].files.src = SourceOf(deps[k].decl)


(* --------------- claims about exceptions in the matching --------------- *)
\* C29: for every number of configured dependencies and of entries left after
\* the name pass, the matching passes end without reading a position outside
\* the list of remaining entries or of remaining dependencies
C29_MatchingNeverRaises ==
    ~(pc = "crashed" /\ raisedIn = "match" /\ raised = "IndexError")


(* ----------------------- claims about tasks.post ----------------------- *)
\* C30: in every state in which post calls it, after a resolution that
\* succeeded or was aborted, save_index completes without raising, and what it
\* wrote is one index entry and one UUID marker per configured dependency
\* whose managed directory exists
C30_SaveIndexSafe ==
    /\ ~(pc = "crashed" /\ raisedIn = "save_index")
    /\ pc = "saved" =>
          \A k \in 1..Len(indexFile) :
              /\ indexFile[k].name \in ConfiguredNames
              /\ disk[indexFile[k].name].exists
              /\ disk[indexFile[k].name].uuid = indexFile[k].uuid

====
